---- MODULE Spec2Model ----
(***************************************************************************)
(* Taz: evaluation of arithmetic expressions given as text.                *)
(*                                                                         *)
(*   text --tokenizer--> infix tokens --converter--> postfix tokens        *)
(*        --evaluator--> f64 | error message                               *)
(*                                                                         *)
(* Representation.                                                         *)
(*  - A text is a sequence of one-character strings.                       *)
(*  - Result<T, String> is <<"Ok", t>> or <<"Err", message>>; a panic of   *)
(*    the Rust runtime (index out of bounds) is <<"Panic", message>>.      *)
(*  - A Token is a tuple whose first element is the variant name.          *)
(*  - An f64 is the term of f64 operations that computes it: a literal     *)
(*    <<"num", n, d>> (the rational n/d, d > 0, in lowest terms), the      *)
(*    constants <<"PI">> and <<"E">>, or an operation applied to f64s      *)
(*    (<<"add", l, r>>, <<"powf", l, r>>, <<"neg", x>>, <<"sqrt", x>> ...).*)
(*    Two equal terms denote the same f64, because each f64 operation is   *)
(*    a function of its operands.  The comparisons the code makes on an    *)
(*    f64 (x != 0.0, x >= 0.0, ...) are decided on the exact rational the  *)
(*    term denotes when that rational is computed by NumOf, and by the     *)
(*    variable oracle otherwise.                                           *)
(***************************************************************************)
EXTENDS Integers, Sequences, FiniteSets, TLC

VARIABLES
    text,                  \* the expression given to evaluate or to Infix::new
    src,                   \* the token sequence a generated text was written from
    oracle,                \* how an f64 that NumOf does not compute compares
    pc,                    \* the position of the caller
    tokenized,             \* what tokenizer::tokenize returned
    tokens,                \* lib.rs `tokens`; the vector of collect_all_tokens
    converted,             \* what converter::infix_to_postfix returned
    posfix_tokens,         \* lib.rs `posfix_tokens`
    result,                \* what the operation under study returned
    chars_iterator,        \* Infix.chars_iterator: index of the next character
    last_extracted_token,  \* Infix.last_extracted_token
    is_first_token,        \* Infix.is_first_token
    cursor,                \* index in src of the next token a converter reads
    stack_operator,        \* converter.rs and Postfix `stack_operator`
    primary_operator,      \* Postfix.primary_operator
    tokens_postfix,        \* converter.rs `tokens_postfix`
    stack_operand,         \* Evaluator::evaluate `stack_operand`
    returned,              \* what the calls of Infix::next_token returned, in order
    variables,             \* the map of variables given to evaluate
    pipeline               \* "batch" or "pull": which implementation runs

\* The state of the converters taken step by step.
converter_vars == <<cursor, stack_operator, primary_operator, tokens_postfix>>
\* The state of the streaming evaluator, of a caller of next_token, and the map.
stream_vars == <<stack_operand, returned, variables, pipeline>>

vars == <<text, src, oracle, pc, tokenized, tokens, converted, posfix_tokens, result,
          chars_iterator, last_extracted_token, is_first_token,
          cursor, stack_operator, primary_operator, tokens_postfix,
          stack_operand, returned, variables, pipeline>>

(***************************************************************************)
(* Bounds of the model.                                                    *)
(***************************************************************************)
\* Longest text over TextChars given to the tokenizers.
MaxTextLen == 4
\* Longest arbitrary token sequence given to the converter.
MaxTokens == 4
\* Longest token sequence generated from the grammar of expressions.
MaxGrammarLen == 5
\* Longest token sequence generated from the grammar of numbers, binary
\* operators and parentheses.
MaxArithLen == 7
\* Largest numerator or denominator NumOf computes exactly.
MaxMagnitude == 10000
\* Most calls of Infix::next_token a caller makes on one text.
MaxCalls == 6
\* Longest arbitrary token sequence given to the evaluators.
MaxPostfix == 4

(***************************************************************************)
(* Result<T, String>                                                       *)
(***************************************************************************)
Ok(x) == <<"Ok", x>>
Err(message) == <<"Err", message>>
Panic(message) == <<"Panic", message>>
is_ok(r) == r[1] = "Ok"
is_err(r) == r[1] = "Err"

(***************************************************************************)
(* f64                                                                     *)
(***************************************************************************)
AbsInt(x) == IF x < 0 THEN -x ELSE x

RECURSIVE GCD(_, _)
GCD(a, b) == IF b = 0 THEN a ELSE GCD(b, a % b)

\* The rational n/d (d # 0) in lowest terms with a positive denominator.
Norm(n, d) ==
    LET g == GCD(AbsInt(n), AbsInt(d))
        s == IF d < 0 THEN -1 ELSE 1
    IN  <<(s * n) \div g, (s * d) \div g>>

\* The f64 of a decimal literal whose value is n/d.
F64(n, d) == LET q == Norm(n, d) IN <<"num", q[1], q[2]>>

Known(q) == <<"known", q[1], q[2]>>
Unknown == <<"unknown">>
Small(q) == AbsInt(q[1]) <= MaxMagnitude /\ q[2] <= MaxMagnitude
KnownIfSmall(q) == IF Small(q) THEN Known(q) ELSE Unknown

\* p * b, or -1 when p is -1 or the product exceeds MaxMagnitude.
BoundedTimes(p, b) == IF p < 0 \/ p * b > MaxMagnitude THEN -1 ELSE p * b

\* b^e for a natural e, or -1 when it exceeds MaxMagnitude (b >= 0).
RECURSIVE NatPow(_, _)
NatPow(b, e) ==
    IF e = 0 THEN 1
    ELSE IF b <= 1 THEN b
    ELSE IF e > 14 THEN -1
    ELSE BoundedTimes(NatPow(b, e - 1), b)

\* powf on rationals l = <<a, b>> and r = <<c, d>>, where the result is rational.
RatPowf(l, r) ==
    IF r[2] # 1 THEN Unknown                        \* a fractional exponent
    ELSE IF r[1] < 0 /\ l[1] = 0 THEN Unknown       \* 0^negative is infinite
    ELSE LET e == AbsInt(r[1])
             pn == NatPow(AbsInt(l[1]), e)
             pd == NatPow(l[2], e)
             sg == IF l[1] < 0 /\ e % 2 = 1 THEN -1 ELSE 1
         IN  IF pn < 0 \/ pd < 0 THEN Unknown
             ELSE IF r[1] >= 0 THEN Known(Norm(sg * pn, pd))
             ELSE Known(Norm(sg * pd, pn))

\* The integer square root of a natural n, or -1 when n is no perfect square.
ISqrt(n) ==
    LET top == IF n < 100 THEN n ELSE 100
    IN  IF \E k \in 0..top : k * k = n THEN CHOOSE k \in 0..top : k * k = n ELSE -1

\* Rational stand-ins of the two irrational constants, used for comparisons only.
PIApprox == <<355, 113>>
EApprox == <<193, 71>>

\* The rational of a binary operation on the rationals l and r.
NumBinary(tag, l, r) ==
    IF l = Unknown \/ r = Unknown THEN Unknown
    ELSE LET p == <<l[2], l[3]>>
             q == <<r[2], r[3]>>
         IN  IF ~Small(p) \/ ~Small(q) THEN Unknown
             ELSE CASE tag = "add" ->
                         KnownIfSmall(Norm(p[1] * q[2] + q[1] * p[2], p[2] * q[2]))
                    [] tag = "sub" ->
                         KnownIfSmall(Norm(p[1] * q[2] - q[1] * p[2], p[2] * q[2]))
                    [] tag = "mul" ->
                         KnownIfSmall(Norm(p[1] * q[1], p[2] * q[2]))
                    [] tag = "div" ->
                         IF q[1] = 0 THEN Unknown
                         ELSE KnownIfSmall(Norm(p[1] * q[2], p[2] * q[1]))
                    [] tag = "powf" -> RatPowf(p, q)

\* The rational of a unary operation on the rational x.
NumUnary(tag, x) ==
    IF x = Unknown THEN Unknown
    ELSE CASE tag = "neg" -> Known(<<-x[2], x[3]>>)
           [] tag = "abs" -> Known(<<AbsInt(x[2]), x[3]>>)
           [] tag = "sqrt" ->
                IF x[2] < 0 \/ ~Small(<<x[2], x[3]>>) THEN Unknown
                ELSE IF ISqrt(x[2]) < 0 \/ ISqrt(x[3]) < 0 THEN Unknown
                ELSE Known(<<ISqrt(x[2]), ISqrt(x[3])>>)

\* The rational an f64 term denotes, when the model computes it.  The terms
\* the model builds are short enough for the rational to have the sign of the f64.
RECURSIVE NumOf(_)
NumOf(v) ==
    CASE v[1] = "num" -> Known(<<v[2], v[3]>>)
      [] v[1] = "PI" -> Known(PIApprox)
      [] v[1] = "E" -> Known(EApprox)
      [] v[1] \in {"add", "sub", "mul", "div", "powf"} ->
            NumBinary(v[1], NumOf(v[2]), NumOf(v[3]))
      [] v[1] \in {"neg", "abs", "sqrt"} -> NumUnary(v[1], NumOf(v[2]))
      [] OTHER -> Unknown

\* The rational an f64 compares as.
RatOr(x, unknown) == IF x = Unknown THEN <<unknown, 1>> ELSE <<x[2], x[3]>>
Cmp(v) == RatOr(NumOf(v), oracle)

NeZero(v) == Cmp(v)[1] # 0                                   \* v != 0.0
\* A plausible slip: the sign of the argument is not looked at.
GeZero_unchecked(v) == TRUE

GeZero(v) == Cmp(v)[1] >= 0                                  \* v >= 0.0
\* A plausible slip: `>=` written for `>`, so that a logarithm accepts 0.
GtZero_or_zero(v) == Cmp(v)[1] >= 0

GtZero(v) == Cmp(v)[1] > 0                                   \* v > 0.0
InUnit(v) == LET q == Cmp(v) IN -q[2] <= q[1] /\ q[1] <= q[2]   \* -1.0 <= v && v <= 1.0
\* (v - FRAC_PI_2) % PI != 0.0
TanRemainderNeZero(v) ==
    LET q == Cmp(v)
        \* (q - PI/2) / PI = (2 q[1] PI_d - PI_n q[2]) / (2 q[2] PI_n)
        n == 2 * q[1] * PIApprox[2] - PIApprox[1] * q[2]
        d == 2 * q[2] * PIApprox[1]
    IN  ~Small(q) \/ n % d # 0

(***************************************************************************)
(* operators.rs                                                            *)
(***************************************************************************)
BinaryOperator_from_char(ops) ==
    CASE ops = "+" -> Ok("Plus")
      [] ops = "-" -> Ok("Minus")
      [] ops = "*" -> Ok("Multiply")
      [] ops = "/" -> Ok("Divide")
      [] ops = "^" -> Ok("Power")
      [] OTHER -> Err("Unknown operator characters")

BinaryOperator_is_ops(ops) ==
    CASE ops = "+" -> TRUE
      [] ops = "-" -> TRUE
      [] ops = "*" -> TRUE
      [] ops = "/" -> TRUE
      [] ops = "^" -> TRUE
      [] OTHER -> FALSE

\* A plausible slip: Multiply and Divide are ranked with Plus and Minus.
precedence_multiply_as_plus(ops) ==
    CASE ops \in {"Plus", "Minus", "Multiply", "Divide"} -> 2
      [] ops = "Power" -> 4

precedence(ops) ==
    CASE ops = "Plus" -> 2
      [] ops = "Minus" -> 2
      [] ops = "Multiply" -> 3
      [] ops = "Divide" -> 3
      [] ops = "Power" -> 4

\* A plausible slip: every operator declared left-associative.
is_left_associative_all(ops) == TRUE

is_left_associative(ops) ==
    CASE ops = "Plus" -> TRUE
      [] ops = "Minus" -> TRUE
      [] ops = "Multiply" -> TRUE
      [] ops = "Divide" -> TRUE
      [] ops = "Power" -> FALSE

\* A plausible slip: the division looks at the wrong operand.
BinaryOperator_apply_checks_left(ops, left_operand, right_operand) ==
    CASE ops = "Plus" -> Ok(<<"add", left_operand, right_operand>>)
      [] ops = "Minus" -> Ok(<<"sub", left_operand, right_operand>>)
      [] ops = "Multiply" -> Ok(<<"mul", left_operand, right_operand>>)
      [] ops = "Divide" ->
            IF NeZero(left_operand)
            THEN Ok(<<"div", left_operand, right_operand>>)
            ELSE Err("Division by zero")
      [] ops = "Power" -> Ok(<<"powf", left_operand, right_operand>>)

BinaryOperator_apply(ops, left_operand, right_operand) ==
    CASE ops = "Plus" -> Ok(<<"add", left_operand, right_operand>>)
      [] ops = "Minus" -> Ok(<<"sub", left_operand, right_operand>>)
      [] ops = "Multiply" -> Ok(<<"mul", left_operand, right_operand>>)
      [] ops = "Divide" ->
            IF NeZero(right_operand)
            THEN Ok(<<"div", left_operand, right_operand>>)
            ELSE Err("Division by zero")
      [] ops = "Power" -> Ok(<<"powf", left_operand, right_operand>>)

UnaryOperator_from_char(ops) ==
    CASE ops = "+" -> Ok("Plus")
      [] ops = "-" -> Ok("Minus")
      [] OTHER -> Err("Unknown operator characters")

\* A plausible slip: the predicate of the binary operators copied for the unary ones.
UnaryOperator_is_ops_as_binary(ops) == BinaryOperator_is_ops(ops)

UnaryOperator_is_ops(ops) ==
    CASE ops = "+" -> TRUE
      [] ops = "-" -> TRUE
      [] OTHER -> FALSE

UnaryOperator_apply(ops, operand) ==
    CASE ops = "Plus" -> operand
      [] ops = "Minus" -> <<"neg", operand>>

(***************************************************************************)
(* functions.rs                                                            *)
(***************************************************************************)
Function_from_string(fun) ==
    CASE fun = <<"a", "b", "s">> -> Ok("Abs")
      [] fun = <<"s", "q", "r", "t">> -> Ok("Sqrt")
      [] fun = <<"c", "b", "r", "t">> -> Ok("Cbrt")
      [] fun = <<"e", "x", "p">> -> Ok("Exp")
      [] fun = <<"l", "n">> -> Ok("Ln")
      [] fun = <<"l", "o", "g", "1", "0">> -> Ok("Log10")
      [] fun = <<"l", "o", "g", "2">> -> Ok("Log2")
      [] fun = <<"s", "i", "n">> -> Ok("Sin")
      [] fun = <<"c", "o", "s">> -> Ok("Cos")
      [] fun = <<"t", "a", "n">> -> Ok("Tan")
      [] fun = <<"a", "s", "i", "n">> -> Ok("Asin")
      [] fun = <<"a", "c", "o", "s">> -> Ok("Acos")
      [] fun = <<"a", "t", "a", "n">> -> Ok("Atan")
      [] fun = <<"s", "i", "n", "h">> -> Ok("Sinh")
      [] fun = <<"c", "o", "s", "h">> -> Ok("Cosh")
      [] fun = <<"t", "a", "n", "h">> -> Ok("Tanh")
      [] fun = <<"a", "s", "i", "n", "h">> -> Ok("Asinh")
      [] fun = <<"a", "c", "o", "s", "h">> -> Ok("Acosh")
      [] fun = <<"a", "t", "a", "n", "h">> -> Ok("Atanh")
      [] OTHER -> Err("Unknown function string")

Function_is_fun(fun) ==
    CASE fun = <<"a", "b", "s">> -> TRUE
      [] fun = <<"s", "q", "r", "t">> -> TRUE
      [] fun = <<"c", "b", "r", "t">> -> TRUE
      [] fun = <<"e", "x", "p">> -> TRUE
      [] fun = <<"l", "n">> -> TRUE
      [] fun = <<"l", "o", "g", "1", "0">> -> TRUE
      [] fun = <<"l", "o", "g", "2">> -> TRUE
      [] fun = <<"s", "i", "n">> -> TRUE
      [] fun = <<"c", "o", "s">> -> TRUE
      [] fun = <<"t", "a", "n">> -> TRUE
      [] fun = <<"a", "s", "i", "n">> -> TRUE
      [] fun = <<"a", "c", "o", "s">> -> TRUE
      [] fun = <<"a", "t", "a", "n">> -> TRUE
      [] fun = <<"s", "i", "n", "h">> -> TRUE
      [] fun = <<"c", "o", "s", "h">> -> TRUE
      [] fun = <<"t", "a", "n", "h">> -> TRUE
      [] fun = <<"a", "s", "i", "n", "h">> -> TRUE
      [] fun = <<"a", "c", "o", "s", "h">> -> TRUE
      [] fun = <<"a", "t", "a", "n", "h">> -> TRUE
      [] OTHER -> FALSE

Function_apply(fun, arg) ==
    CASE fun = "Abs" -> Ok(<<"abs", arg>>)
      [] fun = "Sqrt" ->
            IF GeZero(arg) THEN Ok(<<"sqrt", arg>>)
            ELSE Err("Argument of sqrt function is negative")
      [] fun = "Cbrt" -> Ok(<<"cbrt", arg>>)
      [] fun = "Exp" -> Ok(<<"exp", arg>>)
      [] fun = "Ln" ->
            IF GtZero(arg) THEN Ok(<<"ln", arg>>)
            ELSE Err("Argument of ln function is negative or null")
      [] fun = "Log10" ->
            IF GtZero(arg) THEN Ok(<<"log10", arg>>)
            ELSE Err("Argument of log10 function is negative or null")
      [] fun = "Log2" ->
            IF GtZero(arg) THEN Ok(<<"log2", arg>>)
            ELSE Err("Argument of log2 function is negative or null")
      [] fun = "Sin" -> Ok(<<"sin", arg>>)
      [] fun = "Cos" -> Ok(<<"cos", arg>>)
      [] fun = "Tan" ->
            IF TanRemainderNeZero(arg) THEN Ok(<<"tan", arg>>)
            ELSE Err("Argument of tan function is not valid")
      [] fun = "Asin" ->
            IF InUnit(arg) THEN Ok(<<"asin", arg>>)
            ELSE Err("Argument of asin function is not containing in [-1, 1]")
      [] fun = "Acos" ->
            IF InUnit(arg) THEN Ok(<<"acos", arg>>)
            ELSE Err("Argument of acos function is not containing in [-1, 1]")
      [] fun = "Atan" -> Ok(<<"atan", arg>>)
      [] fun = "Sinh" -> Ok(<<"sinh", arg>>)
      [] fun = "Cosh" -> Ok(<<"cosh", arg>>)
      [] fun = "Tanh" -> Ok(<<"tanh", arg>>)
      [] fun = "Asinh" -> Ok(<<"asinh", arg>>)
      [] fun = "Acosh" -> Ok(<<"acosh", arg>>)
      [] fun = "Atanh" -> Ok(<<"atanh", arg>>)

(***************************************************************************)
(* constants.rs                                                            *)
(***************************************************************************)
PI == <<"PI">>
E == <<"E">>
C == F64(299792458, 1)

is_constant(constant) ==
    CASE constant = <<"p", "i">> -> TRUE
      [] constant = <<"e">> -> TRUE
      [] constant = <<"c">> -> TRUE
      [] OTHER -> FALSE

constants_from_string(constant) ==
    CASE constant = <<"p", "i">> -> Ok(PI)
      [] constant = <<"e">> -> Ok(E)
      [] constant = <<"c">> -> Ok(C)
      [] OTHER -> Err("Unknown constant string")

(***************************************************************************)
(* token.rs, token/mod.rs                                                  *)
(***************************************************************************)
Number(value) == <<"Number", value>>
Constant(value) == <<"Constant", value>>
BinaryOperator(ops) == <<"BinaryOperator", ops>>
UnaryOperator(ops) == <<"UnaryOperator", ops>>
Function(fun) == <<"Function", fun>>
LeftParenthesis == <<"LeftParenthesis">>
RightParenthesis == <<"RightParenthesis">>
Empty == <<"Empty">>
Stop == <<"Stop">>

map_ok(r, f(_)) == IF is_ok(r) THEN Ok(f(r[2])) ELSE r

Token_new_number(value) == Number(value)
Token_new_binary_ops(ops) == map_ok(BinaryOperator_from_char(ops), BinaryOperator)
\* A plausible slip: a glyph that is no unary operator is built as a binary one.
Token_new_unary_ops_or_binary(ops) ==
    IF UnaryOperator_is_ops(ops)
    THEN map_ok(UnaryOperator_from_char(ops), UnaryOperator)
    ELSE map_ok(BinaryOperator_from_char(ops), BinaryOperator)

Token_new_unary_ops(ops) == map_ok(UnaryOperator_from_char(ops), UnaryOperator)
Token_new_constant(constant) == map_ok(constants_from_string(constant), Constant)
Token_new_function(fun_name) == map_ok(Function_from_string(fun_name), Function)

(***************************************************************************)
(* converter.rs                                                            *)
(***************************************************************************)
Last(s) == s[Len(s)]
Front(s) == SubSeq(s, 1, Len(s) - 1)
Contains(s, x) == \E i \in 1..Len(s) : s[i] = x
RECURSIVE Reverse(_)
Reverse(s) == IF s = <<>> THEN <<>> ELSE Append(Reverse(Tail(s)), Head(s))

\* A plausible slip: the unary operator is no longer popped by a binary one.
last_operator_is_primary_no_unary(token_ops, current_ops) ==
    CASE token_ops[1] = "BinaryOperator" ->
            precedence(token_ops[2]) > precedence(current_ops)
            \/ (precedence(token_ops[2]) = precedence(current_ops)
                /\ is_left_associative(current_ops))
      [] OTHER -> FALSE

\* A plausible slip: the unary operator is ranked below Power, as in -a^b = -(a^b).
last_operator_is_primary_power_first(token_ops, current_ops) ==
    CASE token_ops[1] = "UnaryOperator" -> current_ops # "Power"
      [] token_ops[1] = "BinaryOperator" ->
            precedence(token_ops[2]) > precedence(current_ops)
            \/ (precedence(token_ops[2]) = precedence(current_ops)
                /\ is_left_associative(current_ops))
      [] OTHER -> FALSE

\* A plausible slip: a left parenthesis on the stack is popped by a binary
\* operator as an operator of higher precedence is.
last_operator_is_primary_pops_parenthesis(token_ops, current_ops) ==
    CASE token_ops[1] = "UnaryOperator" -> TRUE
      [] token_ops[1] = "BinaryOperator" ->
            precedence(token_ops[2]) > precedence(current_ops)
            \/ (precedence(token_ops[2]) = precedence(current_ops)
                /\ is_left_associative(current_ops))
      [] token_ops[1] = "LeftParenthesis" -> TRUE
      [] OTHER -> FALSE

last_operator_is_primary(token_ops, current_ops) ==
    CASE token_ops[1] = "UnaryOperator" -> TRUE
      [] token_ops[1] = "BinaryOperator" ->
            LET last_precedence == precedence(token_ops[2])
                current_precedence == precedence(current_ops)
                is_primary == last_precedence > current_precedence
                is_left_associativity ==
                    (last_precedence = current_precedence)
                    /\ is_left_associative(current_ops)
            IN  is_primary \/ is_left_associativity
      [] OTHER -> FALSE

\* The state of the loop of infix_to_postfix; error is "" until it returns Err.
ConverterState(output, stack, error) ==
    [tokens_postfix |-> output, stack_operator |-> stack, error |-> error]

\* converter.rs 37-44: pop the stack while its top is primary over ops.
RECURSIVE pop_primary(_, _)
pop_primary(st, ops) ==
    IF st.stack_operator # <<>> /\ last_operator_is_primary(Last(st.stack_operator), ops)
    THEN pop_primary(ConverterState(Append(st.tokens_postfix, Last(st.stack_operator)),
                                    Front(st.stack_operator), st.error), ops)
    ELSE st

\* converter.rs 53-60: pop the stack down to the nearest left parenthesis.
RECURSIVE pop_to_left_parenthesis(_)
pop_to_left_parenthesis(st) ==
    IF st.stack_operator # <<>> /\ Last(st.stack_operator) # LeftParenthesis
    THEN pop_to_left_parenthesis(
            ConverterState(Append(st.tokens_postfix, Last(st.stack_operator)),
                           Front(st.stack_operator), st.error))
    ELSE st

\* A plausible slip: the emptied stack is not reported.
right_parenthesis_unchecked(st) ==
    LET popped == pop_to_left_parenthesis(st)
        rest == IF popped.stack_operator = <<>> THEN <<>> ELSE Front(popped.stack_operator)
    IN  IF rest # <<>> /\ Last(rest)[1] = "Function"
        THEN ConverterState(Append(popped.tokens_postfix, Last(rest)), Front(rest), "")
        ELSE ConverterState(popped.tokens_postfix, rest, "")

\* A plausible slip: the function under the left parenthesis is left on the stack.
right_parenthesis_keeps_function(st) ==
    LET popped == pop_to_left_parenthesis(st)
    IN  IF popped.stack_operator = <<>>
        THEN ConverterState(popped.tokens_postfix, <<>>, "Mismatched parenthesis")
        ELSE ConverterState(popped.tokens_postfix, Front(popped.stack_operator), "")

\* A plausible slip: the left parenthesis is sent to the output with the entries
\* above it.
right_parenthesis_emits_left(st) ==
    LET popped == pop_to_left_parenthesis(st)
        rest == Front(popped.stack_operator)
    IN  IF popped.stack_operator = <<>>
        THEN ConverterState(popped.tokens_postfix, <<>>, "Mismatched parenthesis")
        ELSE IF rest # <<>> /\ Last(rest)[1] = "Function"
        THEN ConverterState(popped.tokens_postfix \o <<LeftParenthesis, Last(rest)>>,
                            Front(rest), "")
        ELSE ConverterState(Append(popped.tokens_postfix, LeftParenthesis), rest, "")

\* converter.rs 51-78: the RightParenthesis arm.
right_parenthesis(st) ==
    LET popped == pop_to_left_parenthesis(st)
        rest == Front(popped.stack_operator)
    IN  IF popped.stack_operator = <<>>
        THEN ConverterState(popped.tokens_postfix, <<>>, "Mismatched parenthesis")
        ELSE IF rest # <<>> /\ Last(rest)[1] = "Function"
        THEN ConverterState(Append(popped.tokens_postfix, Last(rest)), Front(rest), "")
        ELSE ConverterState(popped.tokens_postfix, rest, "")

\* converter.rs 32-79: one iteration of `for token in tokens`.
convert_token(st, token) ==
    CASE token[1] = "Number" ->
            ConverterState(Append(st.tokens_postfix, token), st.stack_operator, "")
      [] token[1] = "Constant" ->
            ConverterState(Append(st.tokens_postfix, token), st.stack_operator, "")
      [] token[1] = "BinaryOperator" ->
            LET popped == pop_primary(st, token[2])
            IN  ConverterState(popped.tokens_postfix,
                               Append(popped.stack_operator, token), "")
      [] token[1] = "UnaryOperator" ->
            ConverterState(st.tokens_postfix, Append(st.stack_operator, token), "")
      [] token[1] = "Function" ->
            ConverterState(st.tokens_postfix, Append(st.stack_operator, token), "")
      [] token[1] = "LeftParenthesis" ->
            ConverterState(st.tokens_postfix, Append(st.stack_operator, token), "")
      [] token[1] = "RightParenthesis" -> right_parenthesis(st)

RECURSIVE convert_loop(_, _, _)
convert_loop(infix, i, st) ==
    IF i > Len(infix) \/ st.error # "" THEN st
    ELSE convert_loop(infix, i + 1, convert_token(st, infix[i]))

\* A plausible slip: the rest of the stack is flushed without looking for "(".
convert_finish_unchecked(st) ==
    Ok(st.tokens_postfix \o Reverse(st.stack_operator))

\* A plausible slip: only the top of the stack is looked at for a left parenthesis.
convert_finish_top_only(st) ==
    IF st.stack_operator # <<>>
    THEN IF Last(st.stack_operator) = LeftParenthesis
         THEN Err("Mismatched parenthesis")
         ELSE Ok(st.tokens_postfix \o Reverse(st.stack_operator))
    ELSE Ok(st.tokens_postfix)

\* A plausible slip: the operators left on the stack are not sent to the output.
convert_finish_no_flush(st) ==
    IF Contains(st.stack_operator, LeftParenthesis)
    THEN Err("Mismatched parenthesis")
    ELSE Ok(st.tokens_postfix)

\* converter.rs 82-92: after the loop.
convert_finish(st) ==
    IF st.stack_operator # <<>>
    THEN IF Contains(st.stack_operator, LeftParenthesis)
         THEN Err("Mismatched parenthesis")
         ELSE Ok(st.tokens_postfix \o Reverse(st.stack_operator))
    ELSE Ok(st.tokens_postfix)

infix_to_postfix(infix) ==
    LET st == convert_loop(infix, 1, ConverterState(<<>>, <<>>, ""))
    IN  IF st.error # "" THEN Err(st.error) ELSE convert_finish(st)

(***************************************************************************)
(* evaluator.rs                                                            *)
(***************************************************************************)
\* The state of the loop of postfix_evaluation; error is <<>> until it returns Err.
EvaluatorState(operands, error) ==
    [stack_operand |-> operands, error |-> error]

\* A plausible slip: the operands are applied in the order they are popped.
binary_operands_swapped(ops, operands) ==
    IF operands = <<>>
    THEN EvaluatorState(operands, "Missing right operand to apply binary operation")
    ELSE IF Len(operands) = 1
    THEN EvaluatorState(<<>>, "Missing left operand to apply binary operation")
    ELSE LET right == Last(operands)
             left == Last(Front(operands))
             applied == BinaryOperator_apply(ops, right, left)
         IN  IF is_err(applied)
             THEN EvaluatorState(Front(Front(operands)), applied[2])
             ELSE EvaluatorState(Append(Front(Front(operands)), applied[2]), "")

\* evaluator.rs 31-45: the BinaryOperator arm.
evaluate_binary(ops, operands) ==
    IF operands = <<>>
    THEN EvaluatorState(operands, "Missing right operand to apply binary operation")
    ELSE IF Len(operands) = 1
    THEN EvaluatorState(<<>>, "Missing left operand to apply binary operation")
    ELSE LET right == Last(operands)
             left == Last(Front(operands))
             applied == BinaryOperator_apply(ops, left, right)
         IN  IF is_err(applied)
             THEN EvaluatorState(Front(Front(operands)), applied[2])
             ELSE EvaluatorState(Append(Front(Front(operands)), applied[2]), "")

\* evaluator.rs 29-66: one iteration of `for token in tokens`.
evaluate_token(st, token) ==
    CASE token[1] = "Number" -> EvaluatorState(Append(st.stack_operand, token[2]), "")
      [] token[1] = "BinaryOperator" -> evaluate_binary(token[2], st.stack_operand)
      [] token[1] = "UnaryOperator" ->
            IF st.stack_operand # <<>>
            THEN EvaluatorState(Append(Front(st.stack_operand),
                                       UnaryOperator_apply(token[2], Last(st.stack_operand))),
                                "")
            ELSE EvaluatorState(<<>>, "Missing operand to apply unary operation")
      [] token[1] = "Function" ->
            IF st.stack_operand # <<>>
            THEN LET applied == Function_apply(token[2], Last(st.stack_operand))
                 IN  IF is_err(applied)
                     THEN EvaluatorState(Front(st.stack_operand), applied[2])
                     ELSE EvaluatorState(Append(Front(st.stack_operand), applied[2]), "")
            ELSE EvaluatorState(<<>>, "Missing argument to apply function")
      [] token[1] = "Constant" -> EvaluatorState(Append(st.stack_operand, token[2]), "")
      [] OTHER ->
            EvaluatorState(st.stack_operand,
                           "Token non-accepted for evaluation of postfix expression")

RECURSIVE evaluate_loop(_, _, _)
evaluate_loop(postfix, i, st) ==
    IF i > Len(postfix) \/ st.error # "" THEN st
    ELSE evaluate_loop(postfix, i + 1, evaluate_token(st, postfix[i]))

\* evaluator.rs 24-70; `stack_operand[0]` panics on an empty vector.
postfix_evaluation(postfix) ==
    LET st == evaluate_loop(postfix, 1, EvaluatorState(<<>>, ""))
    IN  IF st.error # "" THEN Err(st.error)
        ELSE IF st.stack_operand = <<>>
        THEN Panic("index out of bounds: the len is 0 but the index is 0")
        ELSE Ok(st.stack_operand[1])

(***************************************************************************)
(* Characters                                                              *)
(***************************************************************************)
Digits == {"0", "1", "2", "3", "4", "5", "6", "7", "8", "9"}
Letters == {"a", "b", "c", "d", "e", "f", "g", "h", "i", "j", "k", "l", "m",
            "n", "o", "p", "q", "r", "s", "t", "u", "v", "w", "x", "y", "z"}
\* A plausible slip: the whitespace is not recognised, and so not skipped.
is_whitespace_never(c) == FALSE

is_whitespace(c) == c = " "
is_digit(c) == c \in Digits
is_alphanumeric(c) == c \in Letters \/ c \in Digits

DigitValue(c) ==
    CASE c = "0" -> 0 [] c = "1" -> 1 [] c = "2" -> 2 [] c = "3" -> 3 [] c = "4" -> 4
      [] c = "5" -> 5 [] c = "6" -> 6 [] c = "7" -> 7 [] c = "8" -> 8 [] c = "9" -> 9

\* str::parse::<f64> on a string of digits and '.': the numerator and the
\* denominator of the decimal it writes, read left to right.
RECURSIVE DecimalOf(_, _, _, _)
DecimalOf(str, n, d, after_dot) ==
    IF str = <<>> THEN <<n, d>>
    ELSE IF Head(str) = "." THEN DecimalOf(Tail(str), n, d, TRUE)
    ELSE DecimalOf(Tail(str), 10 * n + DigitValue(Head(str)),
                   IF after_dot THEN 10 * d ELSE d, after_dot)

\* A plausible slip: the digits after the '.' are read as part of the integer.
parse_f64_no_scale(str) ==
    LET dots == Cardinality({i \in 1..Len(str) : str[i] = "."})
        q == DecimalOf(str, 0, 1, FALSE)
    IN  IF dots > 1 \/ dots = Len(str) THEN Err("invalid float literal")
        ELSE Ok(F64(q[1], 1))

\* str::parse::<f64> on a string of digits and '.'.
parse_f64(str) ==
    LET dots == Cardinality({i \in 1..Len(str) : str[i] = "."})
        q == DecimalOf(str, 0, 1, FALSE)
    IN  IF str = <<>> THEN Err("cannot parse float from empty string")
        ELSE IF dots > 1 \/ dots = Len(str) THEN Err("invalid float literal")
        ELSE Ok(F64(q[1], q[2]))

(***************************************************************************)
(* tokenizer.rs, expression/infix.rs: the helpers                          *)
(***************************************************************************)
\* The characters of chars from index i that satisfy predicate, and the index
\* of the first one that does not (Len(chars) + 1 at the end of the text).
extract_if(chars, i, predicate(_)) ==
    LET stop == CHOOSE j \in i..(Len(chars) + 1) :
                    /\ \A k \in i..(j - 1) : predicate(chars[k])
                    /\ j = Len(chars) + 1 \/ ~predicate(chars[j])
    IN  [substr |-> SubSeq(chars, i, stop - 1), next |-> stop]

is_number_char(c) == is_digit(c) \/ c = "."
is_word_char(c) == is_alphanumeric(c) \/ c = "_"

\* A plausible slip: the run stops before a second '.', which is left to the
\* next token.
extract_number_one_dot(chars, i) ==
    LET run == extract_if(chars, i, is_number_char)
        dots == {j \in i..(run.next - 1) : chars[j] = "."}
        second == CHOOSE j \in dots : Cardinality({k \in dots : k < j}) = 1
        stop == IF Cardinality(dots) > 1 THEN second ELSE run.next
    IN  [value |-> parse_f64(SubSeq(chars, i, stop - 1)), next |-> stop]

\* tokenizer.rs 38-41 (Option<f64>) and infix.rs 40-46 (Result<f64, String>).
extract_number(chars, i) ==
    LET run == extract_if(chars, i, is_number_char)
    IN  [value |-> parse_f64(run.substr), next |-> run.next]

\* A plausible slip: the longest constant or function name the run starts with
\* is taken as the word, and the rest of the run left to the next token.
extract_word_known_prefix(chars, i) ==
    LET run == extract_if(chars, i, is_word_char)
        known == {k \in (i + 1)..run.next :
                    \/ is_constant(SubSeq(chars, i, k - 1))
                    \/ Function_is_fun(SubSeq(chars, i, k - 1))}
        stop == IF known = {} THEN run.next
                ELSE CHOOSE k \in known : \A j \in known : j <= k
    IN  [substr |-> SubSeq(chars, i, stop - 1), next |-> stop]

\* tokenizer.rs 44-46, infix.rs 49-51.
extract_word(chars, i) == extract_if(chars, i, is_word_char)

\* A plausible slip: the sign after a left parenthesis is read as binary.
is_unary_position_first_only(first, last_token) == first

\* tokenizer.rs 90-91, infix.rs 92-93: where an operator glyph is unary.
is_unary_position(first, last_token) == first \/ last_token = LeftParenthesis

(***************************************************************************)
(* tokenizer.rs: the batch tokenizer                                       *)
(***************************************************************************)
TokenizerState(chars_it, last_token, error_occured, first) ==
    [chars_iterator |-> chars_it, last_extracted_token |-> last_token,
     error_occured |-> error_occured, is_first_token |-> first]

Tokenizer_new == TokenizerState(1, Empty, "", TRUE)

\* tokenizer.rs 133-139: the end of Tokenizer::next.
Tokenizer_return(chars_it, token, error_occured) ==
    [state |-> TokenizerState(chars_it, token, error_occured, FALSE),
     item |-> IF token = Empty THEN <<"None">> ELSE <<"Some", token>>]

\* tokenizer.rs 70-140: Tokenizer::next on the text chars.
Tokenizer_next(chars, tk) ==
    LET start == tk.chars_iterator
        i == extract_if(chars, start, is_whitespace).next
        c == chars[i]
    IN  IF start > Len(chars)
        THEN Tokenizer_return(start, Empty, tk.error_occured)
        ELSE IF i > Len(chars)
        THEN \* `c = self.chars_iterator.peek()?` leaves the function at once
             [state |-> TokenizerState(i, tk.last_extracted_token, tk.error_occured,
                                       tk.is_first_token),
              item |-> <<"None">>]
        ELSE IF is_digit(c)
        THEN LET number == extract_number(chars, i)
             IN  IF is_ok(number.value)
                 THEN Tokenizer_return(number.next, Token_new_number(number.value[2]),
                                       tk.error_occured)
                 ELSE Tokenizer_return(number.next, Empty,
                                       "Cannot parse a number in expression")
        ELSE IF BinaryOperator_is_ops(c) \/ UnaryOperator_is_ops(c)
        THEN LET token_ops_result ==
                     IF is_unary_position(tk.is_first_token, tk.last_extracted_token)
                     THEN Token_new_unary_ops(c)
                     ELSE Token_new_binary_ops(c)
             IN  IF is_ok(token_ops_result)
                 THEN Tokenizer_return(i + 1, token_ops_result[2], tk.error_occured)
                 ELSE Tokenizer_return(i + 1, Empty, token_ops_result[2])
        ELSE IF c = "("
        THEN Tokenizer_return(i + 1, LeftParenthesis, tk.error_occured)
        ELSE IF c = ")"
        THEN Tokenizer_return(i + 1, RightParenthesis, tk.error_occured)
        ELSE IF is_alphanumeric(c)
        THEN LET name == extract_word(chars, i)
                 made == IF is_constant(name.substr) THEN Token_new_constant(name.substr)
                         ELSE IF Function_is_fun(name.substr)
                         THEN Token_new_function(name.substr)
                         ELSE Ok(Empty)
             IN  IF is_ok(made)
                 THEN Tokenizer_return(name.next, made[2], tk.error_occured)
                 ELSE Tokenizer_return(name.next, Empty, made[2])
        ELSE Tokenizer_return(i, Empty, tk.error_occured)

\* Iterator::collect: the items of Tokenizer::next up to the first None.
RECURSIVE Tokenizer_collect(_, _, _)
Tokenizer_collect(chars, tk, acc) ==
    LET step == Tokenizer_next(chars, tk)
    IN  IF step.item[1] = "None" THEN acc
        ELSE Tokenizer_collect(chars, step.state, Append(acc, step.item[2]))

\* tokenizer.rs 146-149.
tokenize(expression) == Ok(Tokenizer_collect(expression, Tokenizer_new, <<>>))

(***************************************************************************)
(* lib.rs                                                                  *)
(***************************************************************************)
\* lib.rs 71-76; each `?` returns the Err of its stage.
evaluate(expression) ==
    LET infix == tokenize(expression)
        postfix == infix_to_postfix(infix[2])
    IN  IF ~is_ok(infix) THEN infix
        ELSE IF ~is_ok(postfix) THEN postfix
        ELSE postfix_evaluation(postfix[2])

(***************************************************************************)
(* expression/infix.rs: the pull-based tokenizer                           *)
(***************************************************************************)
\* format!("The string {} does not correspond to existing tokens", name) and
\* format!("The character {} does not correspond to existing tokens", c).
ErrFormat(message, argument) == <<"Err", message, argument>>

InfixState(chars_it, last_token, first) ==
    [chars_iterator |-> chars_it, last_extracted_token |-> last_token,
     is_first_token |-> first]

Infix_new == InfixState(1, Empty, TRUE)

\* infix.rs 130-136: the end of Infix::next_token.
Infix_return(chars_it, next_token) ==
    [state |-> InfixState(chars_it, IF is_ok(next_token) THEN next_token[2] ELSE Stop,
                          FALSE),
     result |-> next_token]

\* infix.rs 72-137: Infix::next_token on the text chars.
Infix_next_token(chars, st) ==
    LET start == st.chars_iterator
        i == extract_if(chars, start, is_whitespace).next
        c == chars[i]
    IN  IF start > Len(chars)
        THEN Infix_return(start, Ok(Stop))
        ELSE IF i > Len(chars)
        THEN \* `None => return Ok(Token::Stop)` inside the whitespace loop
             [state |-> InfixState(i, st.last_extracted_token, st.is_first_token),
              result |-> Ok(Stop)]
        ELSE IF is_digit(c)
        THEN LET number == extract_number(chars, i)
             IN  Infix_return(number.next, map_ok(number.value, Token_new_number))
        ELSE IF BinaryOperator_is_ops(c) \/ UnaryOperator_is_ops(c)
        THEN Infix_return(i + 1,
                          IF is_unary_position(st.is_first_token, st.last_extracted_token)
                          THEN Token_new_unary_ops(c)
                          ELSE Token_new_binary_ops(c))
        ELSE IF c = "("
        THEN Infix_return(i + 1, Ok(LeftParenthesis))
        ELSE IF c = ")"
        THEN Infix_return(i + 1, Ok(RightParenthesis))
        ELSE IF is_alphanumeric(c)
        THEN LET name == extract_word(chars, i)
             IN  Infix_return(name.next,
                              IF is_constant(name.substr)
                              THEN Token_new_constant(name.substr)
                              ELSE IF Function_is_fun(name.substr)
                              THEN Token_new_function(name.substr)
                              ELSE ErrFormat("The string {} does not correspond to existing tokens",
                                             name.substr))
        ELSE Infix_return(i, ErrFormat("The character {} does not correspond to existing tokens",
                                       <<c>>))

(***************************************************************************)
(* token_iterator.rs: collect_all_tokens over Infix, one call of           *)
(* next_token per step.                                                    *)
(***************************************************************************)
InfixStep ==
    Infix_next_token(text, InfixState(chars_iterator, last_extracted_token,
                                      is_first_token))

InfixAdvance ==
    /\ chars_iterator' = InfixStep.state.chars_iterator
    /\ last_extracted_token' = InfixStep.state.last_extracted_token
    /\ is_first_token' = InfixStep.state.is_first_token

\* A plausible slip: the tokens read before the error are returned.
collect_error_swallowed(error, collected) == Ok(collected)

\* token_iterator.rs 17, 24: `self.next_token()?` on an Err.
collect_error(error, collected) == error

\* token_iterator.rs 19-25: next_token returned a token other than Stop.
CollectToken ==
    /\ pc = "collect"
    /\ is_ok(InfixStep.result)
    /\ InfixStep.result[2] # Stop
    /\ tokens' = IF InfixStep.result[2] # Empty
                 THEN Append(tokens, InfixStep.result[2])
                 ELSE tokens
    /\ InfixAdvance
    /\ UNCHANGED <<text, src, oracle, pc, tokenized, converted, posfix_tokens, result>>
    /\ UNCHANGED <<converter_vars, stream_vars>>

\* token_iterator.rs 19, 27: next_token returned Stop.
CollectStop ==
    /\ pc = "collect"
    /\ InfixStep.result = Ok(Stop)
    /\ result' = Ok(tokens)
    /\ pc' = "done"
    /\ InfixAdvance
    /\ UNCHANGED <<text, src, oracle, tokenized, tokens, converted, posfix_tokens>>
    /\ UNCHANGED <<converter_vars, stream_vars>>

\* token_iterator.rs 17, 24: next_token returned Err.
CollectErr ==
    /\ pc = "collect"
    /\ is_err(InfixStep.result)
    /\ result' = collect_error(InfixStep.result, tokens)
    /\ pc' = "done"
    /\ InfixAdvance
    /\ UNCHANGED <<text, src, oracle, tokenized, tokens, converted, posfix_tokens>>
    /\ UNCHANGED <<converter_vars, stream_vars>>

(***************************************************************************)
(* lib.rs: evaluate, one stage per step.                                   *)
(***************************************************************************)
None == <<"none">>
\* The classes of f64 that NumOf does not compute: below -1, zero, in (0, 1].
OracleValues == {-2, 0, 1}

\* lib.rs 72.
Tokenize ==
    /\ pc = "tokenize"
    /\ tokenized' = tokenize(text)
    /\ IF is_ok(tokenized')
       THEN tokens' = tokenized'[2] /\ pc' = "convert" /\ UNCHANGED result
       ELSE result' = tokenized' /\ pc' = "done" /\ UNCHANGED tokens
    /\ UNCHANGED <<text, src, oracle, converted, posfix_tokens,
                   chars_iterator, last_extracted_token, is_first_token>>
    /\ UNCHANGED <<converter_vars, stream_vars>>

\* lib.rs 73.  The oracle is read by the evaluator alone: it is drawn when the
\* evaluator is about to run.
Convert ==
    /\ pc = "convert"
    /\ converted' = infix_to_postfix(tokens)
    /\ IF is_ok(converted')
       THEN /\ posfix_tokens' = converted'[2]
            /\ pc' = "evaluate"
            /\ oracle' \in OracleValues
            /\ UNCHANGED result
       ELSE /\ result' = converted'
            /\ pc' = "done"
            /\ UNCHANGED <<posfix_tokens, oracle>>
    /\ UNCHANGED <<text, src, tokenized, tokens,
                   chars_iterator, last_extracted_token, is_first_token>>
    /\ UNCHANGED <<converter_vars, stream_vars>>

\* lib.rs 75.
Evaluate ==
    /\ pc = "evaluate"
    /\ result' = postfix_evaluation(posfix_tokens)
    /\ pc' = "done"
    /\ UNCHANGED <<text, src, oracle, posfix_tokens, tokenized, tokens, converted,
                   chars_iterator, last_extracted_token, is_first_token>>
    /\ UNCHANGED <<converter_vars, stream_vars>>

(***************************************************************************)
(* Inputs                                                                  *)
(***************************************************************************)
TextChars == {"0", "2", ".", "+", "/", "(", ")", " ", "e", "#"}
Texts == UNION {[1..n -> TextChars] : n \in 0..MaxTextLen}

InfixChars == {"0", ".", "+", "-", "/", "(", ")", " ", "e", "#"}
InfixTexts == UNION {[1..n -> InfixChars] : n \in 0..MaxTextLen}

TokenAlphabet ==
    {Number(F64(0, 1)), Number(F64(3, 2)), BinaryOperator("Minus"),
     BinaryOperator("Power"), UnaryOperator("Minus"), Function("Sqrt"),
     LeftParenthesis, RightParenthesis}
TokenSeqs == UNION {[1..n -> TokenAlphabet] : n \in 0..MaxTokens}

\* Section 6 of the specification: expr := term (op term)*, term := [sign] primary,
\* primary := number | constant | function "(" expr ")" | "(" expr ")".
\* The token sequences of exactly n tokens of each non-terminal.
RECURSIVE GramP(_, _), GramT(_, _), GramE(_, _)
GramP(g, n) ==
    IF n = 1 THEN {<<a>> : a \in g.atoms}
    ELSE (IF n >= 3
          THEN {<<LeftParenthesis>> \o e \o <<RightParenthesis>> : e \in GramE(g, n - 2)}
          ELSE {})
         \cup
         (IF n >= 4
          THEN {<<f, LeftParenthesis>> \o e \o <<RightParenthesis>> :
                    f \in g.funs, e \in GramE(g, n - 3)}
          ELSE {})
GramT(g, n) ==
    GramP(g, n) \cup
    (IF n >= 2 THEN {<<u>> \o p : u \in g.signs, p \in GramP(g, n - 1)} ELSE {})
GramE(g, n) ==
    GramT(g, n) \cup
    UNION {{e \o <<b>> \o t : e \in GramE(g, k), b \in g.ops, t \in GramT(g, n - 1 - k)} :
           k \in 1..(n - 2)}

AllBinary == {BinaryOperator(o) : o \in {"Plus", "Minus", "Multiply", "Divide", "Power"}}
FullGrammar ==
    [atoms |-> {Number(F64(0, 1)), Number(F64(3, 2)), Constant(E)},
     signs |-> {UnaryOperator("Minus"), UnaryOperator("Plus")},
     ops |-> AllBinary,
     funs |-> {Function("Sqrt"), Function("Ln")}]
ArithGrammar ==
    [atoms |-> {Number(F64(0, 1)), Number(F64(3, 2))},
     signs |-> {},
     ops |-> AllBinary,
     funs |-> {}]
GrammarSeqs == UNION {GramE(FullGrammar, n) : n \in 1..MaxGrammarLen}
ArithSeqs == UNION {GramE(ArithGrammar, n) : n \in 1..MaxArithLen}

\* The text of a token.
Lexeme(token) ==
    CASE token = Number(F64(0, 1)) -> <<"0">>
      [] token = Number(F64(3, 2)) -> <<"1", ".", "5">>
      [] token = Constant(E) -> <<"e">>
      [] token = BinaryOperator("Plus") -> <<"+">>
      [] token = BinaryOperator("Minus") -> <<"-">>
      [] token = BinaryOperator("Multiply") -> <<"*">>
      [] token = BinaryOperator("Divide") -> <<"/">>
      [] token = BinaryOperator("Power") -> <<"^">>
      [] token = UnaryOperator("Plus") -> <<"+">>
      [] token = UnaryOperator("Minus") -> <<"-">>
      [] token = Function("Sqrt") -> <<"s", "q", "r", "t">>
      [] token = Function("Ln") -> <<"l", "n">>
      [] token = LeftParenthesis -> <<"(">>
      [] token = RightParenthesis -> <<")">>

\* The text of a token sequence, sep between two tokens.
RECURSIVE Render(_, _)
Render(ts, sep) ==
    IF ts = <<>> THEN <<>>
    ELSE IF Len(ts) = 1 THEN Lexeme(ts[1])
    ELSE Lexeme(ts[1]) \o sep \o Render(Tail(ts), sep)

(***************************************************************************)
(* Specifications                                                          *)
(***************************************************************************)
IdleInfix ==
    /\ chars_iterator = 1
    /\ last_extracted_token = Empty
    /\ is_first_token = TRUE

IdleSteps ==
    /\ cursor = 1
    /\ stack_operator = <<>>
    /\ primary_operator = <<>>
    /\ tokens_postfix = <<>>
    /\ stack_operand = <<>>
    /\ returned = <<>>

NoVariables == <<>>

IdleStages ==
    /\ IdleSteps
    /\ variables = NoVariables
    /\ tokenized = None
    /\ converted = None
    /\ posfix_tokens = <<>>
    /\ result = None
    /\ oracle = 0

\* evaluate on every text over TextChars.
Init ==
    /\ text \in Texts
    /\ src = <<>>
    /\ pc = "tokenize"
    /\ tokens = <<>>
    /\ pipeline = "batch"
    /\ IdleStages
    /\ IdleInfix

Next == Tokenize \/ Convert \/ Evaluate

Spec == Init /\ [][Next]_vars

\* evaluate on the texts of the grammar, written with and without spaces.
InitGrammar ==
    /\ src \in GrammarSeqs \cup ArithSeqs
    /\ text \in {Render(src, <<>>), Render(src, <<" ">>)}
    /\ pc = "tokenize"
    /\ tokens = <<>>
    /\ pipeline = "batch"
    /\ IdleStages
    /\ IdleInfix

SpecGrammar == InitGrammar /\ [][Next]_vars

\* infix_to_postfix, then postfix_evaluation, on token sequences.
InitTokens ==
    /\ tokens \in TokenSeqs \cup GrammarSeqs
    /\ src = tokens
    /\ text = <<>>
    /\ pc = "convert"
    /\ pipeline = "batch"
    /\ IdleStages
    /\ IdleInfix

NextTokens == Convert \/ Evaluate

SpecTokens == InitTokens /\ [][NextTokens]_vars

\* collect_all_tokens over Infix on every text over InfixChars.
InitInfix ==
    /\ text \in InfixTexts
    /\ src = <<>>
    /\ pc = "collect"
    /\ tokens = <<>>
    /\ pipeline = "pull"
    /\ IdleStages
    /\ IdleInfix

NextInfix == CollectToken \/ CollectStop \/ CollectErr

SpecInfix == InitInfix /\ [][NextInfix]_vars

(***************************************************************************)
(* The value of a well-formed token sequence, by recursive descent on the   *)
(* grammar: expr := term (op term)*, term := [sign] primary, with ^ above   *)
(* * and /, above + and -, ^ grouping right-to-left and the others          *)
(* left-to-right.  An error of a sub-expression is the error of the whole.  *)
(***************************************************************************)
RefPrecedence(ops) ==
    CASE ops \in {"Plus", "Minus"} -> 1
      [] ops \in {"Multiply", "Divide"} -> 2
      [] ops = "Power" -> 3

RefRightToLeft(ops) == ops = "Power"

\* What the operand on the right of ops must bind at least as tightly as.
RefRightMin(ops) ==
    IF RefRightToLeft(ops) THEN RefPrecedence(ops) ELSE RefPrecedence(ops) + 1

RefResult(res, next) == [res |-> res, next |-> next]

RefApplyBinary(ops, lhs, rhs) ==
    IF ~is_ok(lhs) THEN lhs
    ELSE IF ~is_ok(rhs) THEN rhs
    ELSE BinaryOperator_apply(ops, lhs[2], rhs[2])

RefApplyUnary(ops, p) ==
    RefResult(IF is_ok(p.res) THEN Ok(UnaryOperator_apply(ops, p.res[2])) ELSE p.res,
              p.next)

\* e is the group after `fun (`; the `)` is skipped.
RefApplyFunction(fun, e) ==
    RefResult(IF is_ok(e.res) THEN Function_apply(fun, e.res[2]) ELSE e.res, e.next + 1)

\* e is the group after `(`; the `)` is skipped.
RefClose(e) == RefResult(e.res, e.next + 1)

RECURSIVE RefPrimary(_, _), RefTerm(_, _), RefExpr(_, _, _), RefExprOn(_, _, _),
          RefClimb(_, _, _, _), RefClimbOn(_, _, _, _, _)
RefPrimary(ts, i) ==
    CASE ts[i][1] \in {"Number", "Constant"} -> RefResult(Ok(ts[i][2]), i + 1)
      [] ts[i][1] = "LeftParenthesis" -> RefClose(RefExpr(ts, i + 1, 0))
      [] ts[i][1] = "Function" -> RefApplyFunction(ts[i][2], RefExpr(ts, i + 2, 0))

RefTerm(ts, i) ==
    IF ts[i][1] = "UnaryOperator"
    THEN RefApplyUnary(ts[i][2], RefPrimary(ts, i + 1))
    ELSE RefPrimary(ts, i)

\* lhs is the value read so far; operators binding less than min are left alone.
RefClimb(ts, i, lhs, min) ==
    IF i <= Len(ts) /\ ts[i][1] = "BinaryOperator" /\ RefPrecedence(ts[i][2]) >= min
    THEN RefClimbOn(ts, ts[i][2], lhs, RefExpr(ts, i + 1, RefRightMin(ts[i][2])), min)
    ELSE RefResult(lhs, i)

RefClimbOn(ts, ops, lhs, rhs, min) ==
    RefClimb(ts, rhs.next, RefApplyBinary(ops, lhs, rhs.res), min)

RefExprOn(ts, t, min) == RefClimb(ts, t.next, t.res, min)

RefExpr(ts, i, min) == RefExprOn(ts, RefTerm(ts, i), min)

RefEval(ts) == RefExpr(ts, 1, 0).res

(***************************************************************************)
(* Parenthesis balance of a token sequence                                 *)
(***************************************************************************)
Count(s, x, n) == Cardinality({i \in 1..n : s[i] = x})

\* Some RightParenthesis has no earlier unclosed LeftParenthesis.
UnmatchedRight(s) ==
    \E n \in 1..Len(s) : Count(s, RightParenthesis, n) > Count(s, LeftParenthesis, n)

\* Some LeftParenthesis is never closed.
RECURSIVE OpenAfter(_, _, _)
OpenAfter(s, i, open) ==
    IF i > Len(s) THEN open
    ELSE IF s[i] = LeftParenthesis THEN OpenAfter(s, i + 1, open + 1)
    ELSE IF s[i] = RightParenthesis /\ open > 0 THEN OpenAfter(s, i + 1, open - 1)
    ELSE OpenAfter(s, i + 1, open)
UnmatchedLeft(s) == OpenAfter(s, 1, 0) > 0

Unbalanced(s) == UnmatchedRight(s) \/ UnmatchedLeft(s)

(***************************************************************************)
(* Properties of the converter and the evaluator (SpecTokens)              *)
(***************************************************************************)
Converted == pc \in {"evaluate", "done"} /\ converted # None

\* C2: for every well-formed infix token sequence, postfix_evaluation applied to
\* the output of infix_to_postfix returns the value, or the domain error, that
\* recursive descent on the infix form returns.
C2_RoundTrip ==
    (pc = "done" /\ src \in GrammarSeqs /\ tokens = src)
        => /\ is_ok(converted)
           /\ result = RefEval(src)

\* A well-formed sequence where precedence, grouping and a sign all matter has
\* been converted and evaluated to a value.
C2_Witness ==
    /\ pc = "done"
    /\ src \in GrammarSeqs
    /\ tokens = src
    /\ Len(src) = 5
    /\ src[1][1] = "UnaryOperator"
    /\ src[3] = BinaryOperator("Power")
    /\ src[5][1] = "Number"
    /\ is_ok(result)
    /\ result = RefEval(src)

\* C5: infix_to_postfix returns Err("Mismatched parenthesis") for every token
\* sequence with a RightParenthesis that has no earlier unclosed LeftParenthesis
\* and for every token sequence with a LeftParenthesis that is never closed.
C5_MismatchedParenthesis ==
    (Converted /\ Unbalanced(tokens))
        => /\ is_err(converted)
           /\ converted[2] = "Mismatched parenthesis"

\* A sequence whose only fault is a LeftParenthesis left open under an operator
\* has been refused.
C5_Witness ==
    /\ Converted
    /\ Len(tokens) = 4
    /\ UnmatchedLeft(tokens)
    /\ ~UnmatchedRight(tokens)
    /\ tokens[1][1] = "Number"
    /\ tokens[2][1] = "BinaryOperator"
    /\ tokens[3] = LeftParenthesis
    /\ is_err(converted)

(***************************************************************************)
(* The first lexical fault of a text: a malformed numeric literal, an       *)
(* operator glyph that cannot be built in its position, a word that is      *)
(* neither a constant nor a function, or an unknown character.              *)
(***************************************************************************)
\* The end of the maximal run of characters of S that starts at i.
RefRunEnd(chars, i, S) ==
    CHOOSE k \in i..(Len(chars) + 1) :
        /\ \A j \in i..(k - 1) : chars[j] \in S
        /\ k = Len(chars) + 1 \/ chars[k] \notin S

RefDots(chars, i, k) == Cardinality({j \in i..(k - 1) : chars[j] = "."})

RefKnownWord(word) == is_constant(word) \/ Function_is_fun(word)

\* The index where the first faulty lexeme at or after i starts, or 0; sign tells
\* whether an operator glyph at i stands where only a sign can.
RECURSIVE RefFirstFault(_, _, _)
RefFirstFault(chars, i, sign) ==
    IF i > Len(chars) THEN 0
    ELSE IF chars[i] = " " THEN RefFirstFault(chars, i + 1, sign)
    ELSE IF chars[i] \in Digits
    THEN IF RefDots(chars, i, RefRunEnd(chars, i, Digits \cup {"."})) > 1 THEN i
         ELSE RefFirstFault(chars, RefRunEnd(chars, i, Digits \cup {"."}), FALSE)
    ELSE IF chars[i] \in {"+", "-"} THEN RefFirstFault(chars, i + 1, FALSE)
    ELSE IF chars[i] \in {"*", "/", "^"}
    THEN IF sign THEN i ELSE RefFirstFault(chars, i + 1, FALSE)
    ELSE IF chars[i] = "(" THEN RefFirstFault(chars, i + 1, TRUE)
    ELSE IF chars[i] = ")" THEN RefFirstFault(chars, i + 1, FALSE)
    ELSE IF chars[i] \in Letters
    THEN IF RefKnownWord(SubSeq(chars, i,
                                RefRunEnd(chars, i, Letters \cup Digits \cup {"_"}) - 1))
         THEN RefFirstFault(chars, RefRunEnd(chars, i, Letters \cup Digits \cup {"_"}), FALSE)
         ELSE i
    ELSE i

FirstFault(chars) == RefFirstFault(chars, 1, TRUE)

\* The error of the faulty lexeme that starts at i.
RefFaultError(chars, i) ==
    IF chars[i] \in Digits THEN Err("invalid float literal")
    ELSE IF chars[i] \in {"*", "/", "^"} THEN Err("Unknown operator characters")
    ELSE IF chars[i] \in Letters
    THEN ErrFormat("The string {} does not correspond to existing tokens",
                   SubSeq(chars, i, RefRunEnd(chars, i, Letters \cup Digits \cup {"_"}) - 1))
    ELSE ErrFormat("The character {} does not correspond to existing tokens", <<chars[i]>>)

(***************************************************************************)
(* Properties of the pull-based tokenizer (SpecInfix)                      *)
(***************************************************************************)
IsSign(token) ==
    token \in {UnaryOperator("Plus"), UnaryOperator("Minus"),
               BinaryOperator("Plus"), BinaryOperator("Minus")}

\* C4: a + or - is emitted as UnaryOperator exactly when it is the first token of
\* the expression or the token emitted before it is LeftParenthesis, and as
\* BinaryOperator in every other position.
C4_UnaryPosition ==
    \A i \in 1..Len(tokens) :
        IsSign(tokens[i]) =>
            (tokens[i][1] = "UnaryOperator" <=> (i = 1 \/ tokens[i - 1] = LeftParenthesis))

\* A sign was emitted as a binary operator after a number and the next one as a
\* unary operator after a left parenthesis.
C4_Witness ==
    /\ pc = "collect"
    /\ Len(tokens) = 4
    /\ tokens[1][1] = "Number"
    /\ tokens[2] = BinaryOperator("Minus")
    /\ tokens[3] = LeftParenthesis
    /\ tokens[4] = UnaryOperator("Minus")

TextParens(chars) ==
    [i \in 1..Len(chars) |->
        IF chars[i] = "(" THEN LeftParenthesis
        ELSE IF chars[i] = ")" THEN RightParenthesis
        ELSE Empty]

TextUnbalanced(chars) == Unbalanced(TextParens(chars))

MismatchedParenthesis(r) == is_err(r) /\ r[2] = "Mismatched parenthesis"

C7_EmptyTextIsErr ==
    (pc = "done" /\ text = <<>>) => is_err(result)

\* C8: tokenize returns Err whenever the text has a lexical fault, never Ok with
\* the tokens scanned before the fault.
C8_TokenizeFailsOnFault ==
    (tokenized # None /\ FirstFault(text) # 0) => is_err(tokenized)

\* C10: evaluate returns the error of the first stage that fails: the tokenizer's,
\* with no conversion and no evaluation; else the converter's, with no evaluation;
\* else what the evaluator returns; never a number where a stage failed.
C10_FirstFailingStage ==
    pc = "done" =>
        /\ FirstFault(text) # 0 =>
                /\ is_err(tokenized)
                /\ result = tokenized
                /\ converted = None
        /\ (FirstFault(text) = 0 /\ is_err(converted)) =>
                /\ result = converted
                /\ posfix_tokens = <<>>
        /\ (FirstFault(text) = 0 /\ is_ok(converted)) =>
                /\ result = postfix_evaluation(posfix_tokens)
                /\ is_ok(result) \/ is_err(result)

(***************************************************************************)
(* Properties of evaluate on the texts of the grammar (SpecGrammar)        *)
(***************************************************************************)
\* C1 as stated: for every text of numeric literals, + - * / ^, balanced
\* parentheses and whitespace, evaluate returns Ok(v), v the value under the
\* standard precedence and grouping.
C1_AlwaysValue ==
    (pc = "done" /\ src \in ArithSeqs)
        => /\ is_ok(result)
           /\ result = RefEval(src)

\* C1, amended: for every such text evaluate returns Ok(v), v the value under the
\* standard precedence and grouping, unless a division meets a zero right
\* operand, and then it returns Err("Division by zero").
C1_ValueOrDivisionByZero ==
    (pc = "done" /\ src \in ArithSeqs)
        => /\ result = RefEval(src)
           /\ is_err(result) => result[2] = "Division by zero"

\* A spaced text where - stands before ^ and ^ before ^ evaluated to a value.
C1_Witness ==
    /\ pc = "done"
    /\ src \in ArithSeqs
    /\ Len(src) = 7
    /\ Len(text) > 7
    /\ src[2] = BinaryOperator("Minus")
    /\ src[4] = BinaryOperator("Power")
    /\ src[6] = BinaryOperator("Power")
    /\ is_ok(result)

DomainErrors ==
    {"Division by zero",
     "Argument of sqrt function is negative",
     "Argument of ln function is negative or null",
     "Argument of log10 function is negative or null",
     "Argument of log2 function is negative or null",
     "Argument of tan function is not valid",
     "Argument of asin function is not containing in [-1, 1]",
     "Argument of acos function is not containing in [-1, 1]"}

\* The text was tokenized to the tokens it was written from, converted without
\* error, and evaluated to its value or to the error of a domain rule.
EvaluatedAsWritten ==
    /\ is_ok(tokenized)
    /\ tokenized[2] = src
    /\ is_ok(converted)
    /\ result = RefEval(src)
    /\ is_err(result) => result[2] \in DomainErrors

\* Every sign stands first in the expression or directly after a left parenthesis.
SignsLead(ts) ==
    \A i \in 1..Len(ts) :
        ts[i][1] = "UnaryOperator" => (i = 1 \/ ts[i - 1] = LeftParenthesis)

\* C3 as stated: every expression of the grammar, where each term may start with
\* a sign, a term after a binary operator included, is tokenized and converted
\* without error and evaluates to Ok unless a domain rule is violated.
C3_EveryGrammarText ==
    (pc = "done" /\ src \in GrammarSeqs) => EvaluatedAsWritten

\* C3, amended: every expression of the grammar whose signs stand first in the
\* expression or directly after a left parenthesis is tokenized and converted
\* without error and evaluates to Ok unless a domain rule is violated.
C3_GrammarTextWithLeadingSigns ==
    (pc = "done" /\ src \in GrammarSeqs /\ SignsLead(src)) => EvaluatedAsWritten

\* A function applied to a signed number evaluated to a value.
C3_Witness ==
    /\ pc = "done"
    /\ src \in GrammarSeqs
    /\ Len(src) = 5
    /\ src[1][1] = "Function"
    /\ src[3][1] = "UnaryOperator"
    /\ src[4][1] = "Number"
    /\ EvaluatedAsWritten
    /\ is_ok(result)

(***************************************************************************)
(* Where a domain violation is detected (SpecGrammar)                      *)
(***************************************************************************)
\* The kind of a token: its variant, and its operator or function; the value of
\* a Number or of a Constant left out.
Kind(token) == IF token[1] \in {"Number", "Constant"} THEN <<token[1]>> ELSE token

Kinds(ts) == [i \in 1..Len(ts) |-> Kind(ts[i])]

\* The outcome of a stage and the kinds of the tokens it returned.
OutcomeKinds(r) == IF is_ok(r) THEN Ok(Kinds(r[2])) ELSE <<"Err">>

\* The text with every digit replaced by the next one: the same lexemes, other
\* numeric values.
OtherDigits(chars) ==
    [i \in 1..Len(chars) |->
        IF chars[i] \in Digits
        THEN CHOOSE d \in Digits : DigitValue(d) = (DigitValue(chars[i]) + 1) % 10
        ELSE chars[i]]

\* The tokens with every numeric value replaced by another one.
OtherValues(ts) ==
    [i \in 1..Len(ts) |->
        CASE ts[i][1] = "Number" -> Number(F64(7, 1))
          [] ts[i][1] = "Constant" -> Constant(PI)
          [] OTHER -> ts[i]]

\* A function is applied to a literal outside its domain: sqrt ( - 1.5 ), ln ( 0 ).
LiteralDomainFault(ts) ==
    \/ \E i \in 1..(Len(ts) - 4) :
            SubSeq(ts, i, i + 4) = <<Function("Sqrt"), LeftParenthesis,
                                     UnaryOperator("Minus"), Number(F64(3, 2)),
                                     RightParenthesis>>
    \/ \E i \in 1..(Len(ts) - 3) :
            SubSeq(ts, i, i + 3) = <<Function("Ln"), LeftParenthesis,
                                     Number(F64(0, 1)), RightParenthesis>>

\* C11: the outcome and the token kinds of tokenize and of infix_to_postfix are
\* those of the same input with other numeric values, and an expression of the
\* grammar whose only fault is a function applied to a literal outside its domain
\* is tokenized and converted without error and fails in postfix_evaluation with
\* the error of the domain rule.
C11_DomainFaultAtEvaluation ==
    /\ pc = "done" =>
            OutcomeKinds(tokenized) = OutcomeKinds(tokenize(OtherDigits(text)))
    /\ (pc = "done" /\ converted # None) =>
            OutcomeKinds(converted) = OutcomeKinds(infix_to_postfix(OtherValues(tokens)))
    /\ (pc = "done" /\ src \in GrammarSeqs /\ SignsLead(src) /\ LiteralDomainFault(src)) =>
            /\ is_ok(tokenized)
            /\ is_ok(converted)
            /\ is_err(result)
            /\ result = postfix_evaluation(posfix_tokens)
            /\ result[2] \in {"Argument of sqrt function is negative",
                              "Argument of ln function is negative or null"}

\* The square root of a negative literal went through the tokenizer and the
\* converter and was refused by the evaluator.
C11_Witness ==
    /\ pc = "done"
    /\ src = <<Function("Sqrt"), LeftParenthesis, UnaryOperator("Minus"),
               Number(F64(3, 2)), RightParenthesis>>
    /\ is_ok(tokenized)
    /\ converted = Ok(<<Number(F64(3, 2)), UnaryOperator("Minus"), Function("Sqrt")>>)
    /\ result = Err("Argument of sqrt function is negative")

(***************************************************************************)
(* expression/postfix.rs: Postfix, the pull-based converter                *)
(***************************************************************************)
\* postfix.rs 7-22.
Postfix_last_operator_is_primary(token_ops, current_ops) ==
    CASE token_ops[1] = "UnaryOperator" -> TRUE
      [] token_ops[1] = "BinaryOperator" ->
            LET last_precedence == precedence(token_ops[2])
                current_precedence == precedence(current_ops)
                is_primary == last_precedence > current_precedence
                is_left_associativity ==
                    (last_precedence = current_precedence)
                    /\ is_left_associative(current_ops)
            IN  is_primary \/ is_left_associativity
      [] OTHER -> FALSE

PostfixState(stack, primary) ==
    [stack_operator |-> stack, primary_operator |-> primary]

\* postfix.rs 38-44.
Postfix_new == PostfixState(<<>>, <<>>)

\* postfix.rs 66-73: move the primary tops of the stack to primary_operator.
RECURSIVE Postfix_pop_primary(_, _)
Postfix_pop_primary(st, ops) ==
    IF st.stack_operator # <<>>
       /\ Postfix_last_operator_is_primary(Last(st.stack_operator), ops)
    THEN Postfix_pop_primary(
            PostfixState(Front(st.stack_operator),
                         Append(st.primary_operator, Last(st.stack_operator))), ops)
    ELSE st

\* postfix.rs 92-99: move the stack down to the nearest left parenthesis.
RECURSIVE Postfix_pop_to_left_parenthesis(_)
Postfix_pop_to_left_parenthesis(st) ==
    IF st.stack_operator # <<>> /\ Last(st.stack_operator) # LeftParenthesis
    THEN Postfix_pop_to_left_parenthesis(
            PostfixState(Front(st.stack_operator),
                         Append(st.primary_operator, Last(st.stack_operator))))
    ELSE st

\* postfix.rs 90-119: the RightParenthesis arm.
Postfix_right_parenthesis(st) ==
    LET popped == Postfix_pop_to_left_parenthesis(st)
        rest == Front(popped.stack_operator)
    IN  IF popped.stack_operator = <<>>
        THEN [state |-> popped, result |-> Err("Mismatched parenthesis")]
        ELSE IF rest # <<>> /\ Last(rest)[1] = "Function"
        THEN [state |-> PostfixState(Front(rest),
                                     Append(popped.primary_operator, Last(rest))),
              result |-> Ok(Empty)]
        ELSE [state |-> PostfixState(rest, popped.primary_operator),
              result |-> Ok(Empty)]

\* A plausible slip: the rest of the stack is returned bottom first.
Postfix_rest_bottom_first(st) ==
    IF st.stack_operator = <<>>
    THEN [state |-> st, result |-> Ok(Stop)]
    ELSE IF Contains(st.stack_operator, LeftParenthesis)
    THEN [state |-> st, result |-> Err("Mismatched parenthesis")]
    ELSE [state |-> PostfixState(Tail(st.stack_operator), st.primary_operator),
          result |-> Ok(Head(st.stack_operator))]

\* A plausible slip: `last()` written for `pop()`, the operator returned stays on
\* the stack.
Postfix_rest_peeks(st) ==
    IF st.stack_operator = <<>>
    THEN [state |-> st, result |-> Ok(Stop)]
    ELSE IF Contains(st.stack_operator, LeftParenthesis)
    THEN [state |-> st, result |-> Err("Mismatched parenthesis")]
    ELSE [state |-> st, result |-> Ok(Last(st.stack_operator))]

\* postfix.rs 120-131: the infix iterator is exhausted.
Postfix_rest(st) ==
    IF st.stack_operator = <<>>
    THEN [state |-> st, result |-> Ok(Stop)]
    ELSE IF Contains(st.stack_operator, LeftParenthesis)
    THEN [state |-> st, result |-> Err("Mismatched parenthesis")]
    ELSE [state |-> PostfixState(Front(st.stack_operator), st.primary_operator),
          result |-> Ok(Last(st.stack_operator))]

\* postfix.rs 61-132: `match infix_token`.
Postfix_match(st, infix_token) ==
    CASE infix_token[1] \in {"Number", "Constant"} ->
            [state |-> st, result |-> Ok(infix_token)]
      [] infix_token[1] = "BinaryOperator" ->
            [state |-> PostfixState(
                          Append(Postfix_pop_primary(st, infix_token[2]).stack_operator,
                                 infix_token),
                          Postfix_pop_primary(st, infix_token[2]).primary_operator),
             result |-> Ok(Empty)]
      [] infix_token[1] \in {"UnaryOperator", "Function", "LeftParenthesis"} ->
            [state |-> PostfixState(Append(st.stack_operator, infix_token),
                                    st.primary_operator),
             result |-> Ok(Empty)]
      [] infix_token[1] = "RightParenthesis" -> Postfix_right_parenthesis(st)
      [] OTHER -> Postfix_rest(st)

\* A plausible slip: the popped operators are returned newest first.
Postfix_next_token_newest_first(st, infix_result) ==
    IF st.primary_operator # <<>>
    THEN [state |-> PostfixState(st.stack_operator, Front(st.primary_operator)),
          result |-> Ok(Last(st.primary_operator))]
    ELSE IF is_err(infix_result)
    THEN [state |-> st, result |-> infix_result]
    ELSE Postfix_match(st, infix_result[2])

\* A plausible slip: an error of the infix iterator empties the stacks.
Postfix_next_token_resets_on_err(st, infix_result) ==
    IF st.primary_operator # <<>>
    THEN [state |-> PostfixState(st.stack_operator, Tail(st.primary_operator)),
          result |-> Ok(Head(st.primary_operator))]
    ELSE IF is_err(infix_result)
    THEN [state |-> Postfix_new, result |-> infix_result]
    ELSE Postfix_match(st, infix_result[2])

\* postfix.rs 51-133: Postfix::next_token; infix_result is what
\* `self.infix_iterator.next_token()` returns, called when primary_operator is
\* empty and not otherwise.
Postfix_next_token(st, infix_result) ==
    IF st.primary_operator # <<>>
    THEN [state |-> PostfixState(st.stack_operator, Tail(st.primary_operator)),
          result |-> Ok(Head(st.primary_operator))]
    ELSE IF is_err(infix_result)
    THEN [state |-> st, result |-> infix_result]
    ELSE Postfix_match(st, infix_result[2])

\* postfix.rs 155-162: MockInfix::next_token, the iterator over a token vector.
MockInfix_next_token(ts, i) ==
    IF i <= Len(ts)
    THEN [next |-> i + 1, result |-> Ok(ts[i])]
    ELSE [next |-> i, result |-> Ok(Stop)]

(***************************************************************************)
(* The two converters, one step at a time (SpecConverter): infix_to_postfix *)
(* one iteration of its loop per step, and collect_all_tokens over          *)
(* Postfix over MockInfix one call of next_token per step.                  *)
(***************************************************************************)
other_vars ==
    <<text, oracle, tokenized, converted, posfix_tokens,
      chars_iterator, last_extracted_token, is_first_token, stream_vars>>

ConvertStep ==
    convert_token(ConverterState(tokens_postfix, stack_operator, ""), src[cursor])

\* converter.rs 32-79: one iteration of `for token in tokens`.
ConvertRead ==
    /\ pc = "read"
    /\ cursor <= Len(src)
    /\ tokens_postfix' = ConvertStep.tokens_postfix
    /\ stack_operator' = ConvertStep.stack_operator
    /\ cursor' = cursor + 1
    /\ IF ConvertStep.error # ""
       THEN result' = Err(ConvertStep.error) /\ pc' = "done"
       ELSE UNCHANGED <<result, pc>>
    /\ UNCHANGED <<src, tokens, primary_operator, other_vars>>

\* converter.rs 82-92: after the loop.
ConvertFinish ==
    /\ pc = "read"
    /\ cursor > Len(src)
    /\ result' = convert_finish(ConverterState(tokens_postfix, stack_operator, ""))
    /\ pc' = "done"
    /\ UNCHANGED <<src, tokens, cursor, stack_operator, tokens_postfix,
                   primary_operator, other_vars>>

\* A plausible slip: Empty is pushed like any token.
collect_push_always(collected, token) == Append(collected, token)

\* token_iterator.rs 20-22: `if token != Token::Empty { tokens.push(token); }`.
collect_push(collected, token) ==
    IF token # Empty THEN Append(collected, token) ELSE collected

PostfixStep ==
    Postfix_next_token(PostfixState(stack_operator, primary_operator),
                       MockInfix_next_token(src, cursor).result)

PostfixAdvance ==
    /\ stack_operator' = PostfixStep.state.stack_operator
    /\ primary_operator' = PostfixStep.state.primary_operator
    /\ cursor' = IF primary_operator = <<>>
                 THEN MockInfix_next_token(src, cursor).next
                 ELSE cursor

\* token_iterator.rs 19-25: Postfix::next_token returned a token other than Stop.
PullToken ==
    /\ pc = "pull"
    /\ is_ok(PostfixStep.result)
    /\ PostfixStep.result[2] # Stop
    /\ tokens' = collect_push(tokens, PostfixStep.result[2])
    /\ PostfixAdvance
    /\ UNCHANGED <<src, pc, result, tokens_postfix, other_vars>>

\* token_iterator.rs 19, 27: Postfix::next_token returned Stop.
PullStop ==
    /\ pc = "pull"
    /\ PostfixStep.result = Ok(Stop)
    /\ result' = Ok(tokens)
    /\ pc' = "done"
    /\ PostfixAdvance
    /\ UNCHANGED <<src, tokens, tokens_postfix, other_vars>>

\* token_iterator.rs 17, 24: Postfix::next_token returned Err.
PullErr ==
    /\ pc = "pull"
    /\ is_err(PostfixStep.result)
    /\ result' = collect_error(PostfixStep.result, tokens)
    /\ pc' = "done"
    /\ PostfixAdvance
    /\ UNCHANGED <<src, tokens, tokens_postfix, other_vars>>

\* Either converter on the token sequences over TokenAlphabet and on those of
\* the grammar.
InitConverter ==
    /\ src \in TokenSeqs \cup GrammarSeqs \cup ArithSeqs
    /\ pipeline \in {"batch", "pull"}
    /\ pc = IF pipeline = "batch" THEN "read" ELSE "pull"
    /\ text = <<>>
    /\ tokens = <<>>
    /\ IdleStages
    /\ IdleInfix

NextConverter == ConvertRead \/ ConvertFinish \/ PullToken \/ PullStop \/ PullErr

SpecConverter == InitConverter /\ [][NextConverter]_vars

(***************************************************************************)
(* Properties of the two converters (SpecConverter)                        *)
(***************************************************************************)
\* C13: for every infix token sequence, collect_all_tokens over Postfix returns
\* what infix_to_postfix returns: Ok with the same token sequence, or
\* Err("Mismatched parenthesis") where infix_to_postfix returns it.
C13_PullEqualsBatch ==
    (pipeline = "pull" /\ pc = "done")
        => /\ result = infix_to_postfix(src)
           /\ is_ok(result) \/ result = Err("Mismatched parenthesis")

\* A sequence where a unary operator, a function and a pair of parentheses are
\* popped at different calls was collected from Postfix.
C13_Witness ==
    /\ pipeline = "pull"
    /\ pc = "done"
    /\ Len(src) = 5
    /\ src[1][1] = "Function"
    /\ src[3][1] = "UnaryOperator"
    /\ is_ok(result)
    /\ Len(result[2]) = 3
    /\ result = infix_to_postfix(src)

\* The rule of the binary operator: the stack entry is popped when op is read.
PoppedByBinary(entry, op) ==
    LET rank == [o \in {"Plus", "Minus", "Multiply", "Divide", "Power"} |->
                    CASE o \in {"Plus", "Minus"} -> 2
                      [] o \in {"Multiply", "Divide"} -> 3
                      [] o = "Power" -> 4]
    IN  \/ entry[1] = "UnaryOperator"
        \/ /\ entry[1] = "BinaryOperator"
           /\ \/ rank[entry[2]] > rank[op]
              \/ rank[entry[2]] = rank[op] /\ op # "Power"

\* The number of entries at the top of stack that op pops: the longest run of
\* entries popped by op that ends at the top.
PoppedCount(stack, op) ==
    CHOOSE k \in 0..Len(stack) :
        /\ \A j \in (Len(stack) - k + 1)..Len(stack) : PoppedByBinary(stack[j], op)
        /\ k < Len(stack) => ~PoppedByBinary(stack[Len(stack) - k], op)

\* A converter is about to read the token src[cursor].
BatchReads == pipeline = "batch" /\ pc = "read" /\ cursor <= Len(src)
PullReads == pipeline = "pull" /\ pc = "pull" /\ primary_operator = <<>> /\ cursor <= Len(src)

\* a op b op c, the same op twice.
IsChain(ts) ==
    /\ Len(ts) = 5
    /\ ts \in ArithSeqs
    /\ ts[2][1] = "BinaryOperator"
    /\ ts[4] = ts[2]

\* C16: a converter that reads BinaryOperator(op) pops to the output, top first,
\* the entries at the top of the stack that are a UnaryOperator, a BinaryOperator
\* of greater precedence, or a BinaryOperator of equal precedence when op is not
\* Power, and no entry below them, then pushes op, with Plus = Minus = 2,
\* Multiply = Divide = 3, Power = 4; a op b op c converts to a b op c op, and
\* a ^ b ^ c to a b c ^ ^.
C16_BinaryOperatorRead ==
    /\ (BatchReads /\ src[cursor][1] = "BinaryOperator") =>
            LET op == src[cursor][2]
                k == PoppedCount(stack_operator, op)
                n == Len(stack_operator)
            IN  /\ ConvertStep.error = ""
                /\ ConvertStep.stack_operator =
                        Append(SubSeq(stack_operator, 1, n - k), src[cursor])
                /\ ConvertStep.tokens_postfix =
                        tokens_postfix \o Reverse(SubSeq(stack_operator, n - k + 1, n))
    /\ (PullReads /\ src[cursor][1] = "BinaryOperator") =>
            LET op == src[cursor][2]
                k == PoppedCount(stack_operator, op)
                n == Len(stack_operator)
            IN  /\ PostfixStep.result = Ok(Empty)
                /\ PostfixStep.state.stack_operator =
                        Append(SubSeq(stack_operator, 1, n - k), src[cursor])
                /\ PostfixStep.state.primary_operator =
                        Reverse(SubSeq(stack_operator, n - k + 1, n))
    /\ (pc = "done" /\ IsChain(src)) =>
            result = IF src[2] = BinaryOperator("Power")
                     THEN Ok(<<src[1], src[3], src[5], src[4], src[2]>>)
                     ELSE Ok(<<src[1], src[3], src[2], src[5], src[4]>>)

\* The batch converter is about to read a Minus with a Power above a Minus on
\* the stack: both are popped.
C16_Witness ==
    /\ BatchReads
    /\ src[cursor] = BinaryOperator("Minus")
    /\ stack_operator = <<BinaryOperator("Minus"), BinaryOperator("Power")>>
    /\ ConvertStep.stack_operator = <<BinaryOperator("Minus")>>

\* - a op b: a sign, an operand, a binary operator, an operand.
IsSignedLeft(ts) ==
    /\ Len(ts) = 4
    /\ ts[1][1] = "UnaryOperator"
    /\ ts[2][1] \in {"Number", "Constant"}
    /\ ts[3][1] = "BinaryOperator"
    /\ ts[4][1] \in {"Number", "Constant"}

\* C17: a converter that reads a UnaryOperator pushes it, whatever the stack
\* holds, and pops nothing; a BinaryOperator read while a UnaryOperator is the
\* top of the stack pops it, whatever the operator, Power included; the postfix
\* of `-a op b` is `a - b op` for every binary op.
C17_UnaryBindsTighter ==
    /\ (BatchReads /\ src[cursor][1] = "UnaryOperator") =>
            /\ ConvertStep.error = ""
            /\ ConvertStep.stack_operator = Append(stack_operator, src[cursor])
            /\ ConvertStep.tokens_postfix = tokens_postfix
    /\ (PullReads /\ src[cursor][1] = "UnaryOperator") =>
            /\ PostfixStep.result = Ok(Empty)
            /\ PostfixStep.state.stack_operator = Append(stack_operator, src[cursor])
            /\ PostfixStep.state.primary_operator = <<>>
    /\ (BatchReads /\ src[cursor][1] = "BinaryOperator" /\ stack_operator # <<>>
            /\ Last(stack_operator)[1] = "UnaryOperator") =>
            /\ Len(ConvertStep.tokens_postfix) > Len(tokens_postfix)
            /\ ConvertStep.tokens_postfix[Len(tokens_postfix) + 1] = Last(stack_operator)
    /\ (PullReads /\ src[cursor][1] = "BinaryOperator" /\ stack_operator # <<>>
            /\ Last(stack_operator)[1] = "UnaryOperator") =>
            /\ PostfixStep.state.primary_operator # <<>>
            /\ Head(PostfixStep.state.primary_operator) = Last(stack_operator)
    /\ (pc = "done" /\ IsSignedLeft(src)) =>
            result = Ok(<<src[2], src[1], src[4], src[3]>>)

\* - a ^ b was converted by Postfix to a - b ^.
C17_Witness ==
    /\ pipeline = "pull"
    /\ pc = "done"
    /\ IsSignedLeft(src)
    /\ src[1] = UnaryOperator("Minus")
    /\ src[3] = BinaryOperator("Power")
    /\ result = Ok(<<src[2], UnaryOperator("Minus"), src[4], BinaryOperator("Power")>>)

\* The index in stack of the left parenthesis nearest to the top.
NearestLeftParenthesis(stack) ==
    CHOOSE j \in 1..Len(stack) :
        /\ stack[j] = LeftParenthesis
        /\ \A i \in (j + 1)..Len(stack) : stack[i] # LeftParenthesis

\* What the right parenthesis sends to the output, in order: the entries above
\* the nearest left parenthesis, top first, then the function under it if any.
PoppedByRightParenthesis(stack) ==
    LET j == NearestLeftParenthesis(stack)
    IN  Reverse(SubSeq(stack, j + 1, Len(stack)))
        \o (IF j > 1 /\ stack[j - 1][1] = "Function" THEN <<stack[j - 1]>> ELSE <<>>)

\* What the right parenthesis leaves on the stack.
LeftByRightParenthesis(stack) ==
    LET j == NearestLeftParenthesis(stack)
    IN  IF j > 1 /\ stack[j - 1][1] = "Function"
        THEN SubSeq(stack, 1, j - 2)
        ELSE SubSeq(stack, 1, j - 1)

\* f ( e ): a function applied to an expression of the grammar.
IsApplication(ts) ==
    /\ ts \in GrammarSeqs
    /\ ts[1][1] = "Function"
    /\ SubSeq(ts, 3, Len(ts) - 1) \in GrammarSeqs

\* C18: a converter that reads RightParenthesis with a LeftParenthesis on the
\* stack sends to the output the entries above the nearest LeftParenthesis, top
\* first, drops that LeftParenthesis, then sends the new top if it is a Function,
\* and pops nothing else; the postfix of f ( e ) is the postfix of e followed by f.
C18_RightParenthesisRead ==
    /\ (BatchReads /\ src[cursor] = RightParenthesis
            /\ Contains(stack_operator, LeftParenthesis)) =>
            /\ ConvertStep.error = ""
            /\ ConvertStep.tokens_postfix =
                    tokens_postfix \o PoppedByRightParenthesis(stack_operator)
            /\ ConvertStep.stack_operator = LeftByRightParenthesis(stack_operator)
    /\ (PullReads /\ src[cursor] = RightParenthesis
            /\ Contains(stack_operator, LeftParenthesis)) =>
            /\ PostfixStep.result = Ok(Empty)
            /\ PostfixStep.state.primary_operator =
                    PoppedByRightParenthesis(stack_operator)
            /\ PostfixStep.state.stack_operator = LeftByRightParenthesis(stack_operator)
    /\ (pc = "done" /\ IsApplication(src)) =>
            /\ is_ok(result)
            /\ is_ok(infix_to_postfix(SubSeq(src, 3, Len(src) - 1)))
            /\ result[2] = Append(infix_to_postfix(SubSeq(src, 3, Len(src) - 1))[2], src[1])

\* The batch converter is about to read the right parenthesis of f ( - a ): the
\* sign and then the function are popped and the stack is left empty.
C18_Witness ==
    /\ BatchReads
    /\ src[cursor] = RightParenthesis
    /\ Len(stack_operator) = 3
    /\ stack_operator[1][1] = "Function"
    /\ stack_operator[2] = LeftParenthesis
    /\ stack_operator[3][1] = "UnaryOperator"
    /\ ConvertStep.stack_operator = <<>>
    /\ ConvertStep.tokens_postfix =
            tokens_postfix \o <<stack_operator[3], stack_operator[1]>>

\* A converter has read every token of src without error.
BatchAtEnd == pipeline = "batch" /\ pc = "read" /\ cursor > Len(src)
PullAtEnd == pipeline = "pull" /\ pc = "pull" /\ primary_operator = <<>> /\ cursor > Len(src)

\* C19: at the end of the input infix_to_postfix returns the output followed by
\* the stack, top first, and returns Err("Mismatched parenthesis") and no token
\* when a LeftParenthesis is anywhere in the stack; Postfix returns the top of
\* the stack at each call, Stop once the stack is empty, and that error, with the
\* stack left as it is, when a LeftParenthesis is anywhere in the stack.
C19_EndOfInput ==
    /\ BatchAtEnd =>
            convert_finish(ConverterState(tokens_postfix, stack_operator, "")) =
                IF \E i \in 1..Len(stack_operator) : stack_operator[i] = LeftParenthesis
                THEN Err("Mismatched parenthesis")
                ELSE Ok(tokens_postfix \o Reverse(stack_operator))
    /\ PullAtEnd =>
            /\ PostfixStep.result =
                    IF \E i \in 1..Len(stack_operator) : stack_operator[i] = LeftParenthesis
                    THEN Err("Mismatched parenthesis")
                    ELSE IF stack_operator = <<>> THEN Ok(Stop)
                    ELSE Ok(Last(stack_operator))
            /\ PostfixStep.state.stack_operator =
                    IF is_ok(PostfixStep.result) /\ stack_operator # <<>>
                    THEN Front(stack_operator)
                    ELSE stack_operator
            /\ PostfixStep.state.primary_operator = <<>>
    /\ (pc = "done" /\ cursor > Len(src)
            /\ \E i \in 1..Len(stack_operator) : stack_operator[i] = LeftParenthesis) =>
            result = Err("Mismatched parenthesis")
    /\ (pipeline = "batch" /\ pc = "done" /\ is_ok(result)) =>
            result[2] = tokens_postfix \o Reverse(stack_operator)

\* The batch converter reached the end of the input with a binary operator above
\* a left parenthesis on the stack, and returned the error.
C19_Witness ==
    /\ pipeline = "batch"
    /\ pc = "done"
    /\ cursor > Len(src)
    /\ Len(stack_operator) = 2
    /\ stack_operator[1] = LeftParenthesis
    /\ stack_operator[2][1] = "BinaryOperator"
    /\ tokens_postfix # <<>>
    /\ result = Err("Mismatched parenthesis")

PendingKinds == {"UnaryOperator", "BinaryOperator", "Function", "LeftParenthesis"}

NoParenthesis(ts) ==
    \A i \in 1..Len(ts) : ts[i][1] \notin {"LeftParenthesis", "RightParenthesis"}

\* C20: in every state of either conversion the stack holds only UnaryOperator,
\* BinaryOperator, Function and LeftParenthesis tokens, and neither the output
\* built so far (tokens_postfix, the tokens waiting in primary_operator, the
\* tokens collected from Postfix) nor the result holds a parenthesis.
C20_StackAndOutputKinds ==
    /\ \A i \in 1..Len(stack_operator) : stack_operator[i][1] \in PendingKinds
    /\ NoParenthesis(tokens_postfix)
    /\ NoParenthesis(primary_operator)
    /\ NoParenthesis(tokens)
    /\ (pc = "done" /\ is_ok(result)) => NoParenthesis(result[2])

\* Postfix is inside the parentheses of a function, under an operator, with
\* tokens already returned.
C20_Witness ==
    /\ pipeline = "pull"
    /\ pc = "pull"
    /\ Len(stack_operator) = 3
    /\ stack_operator[1][1] = "Function"
    /\ stack_operator[2] = LeftParenthesis
    /\ stack_operator[3][1] = "BinaryOperator"
    /\ tokens # <<>>

(***************************************************************************)
(* The callers of next_token (SpecCalls): collect_all_tokens over Infix,    *)
(* collect_all_tokens over Postfix, and a caller of Infix::next_token that  *)
(* goes on calling after Stop.                                             *)
(***************************************************************************)
\* infix.rs 72-137: one call of Infix::next_token; the caller keeps what it
\* returned.
InfixCall ==
    /\ pc = "call"
    /\ Len(returned) < MaxCalls
    /\ returned' = Append(returned, InfixStep.result)
    /\ InfixAdvance
    /\ UNCHANGED <<text, src, oracle, pc, tokenized, tokens, converted, posfix_tokens,
                   result, converter_vars, stack_operand, variables, pipeline>>

InitCalls ==
    /\ \/ /\ text \in InfixTexts
          /\ src = <<>>
          /\ pc \in {"collect", "call"}
       \/ /\ text = <<>>
          /\ src \in TokenSeqs
          /\ pc = "pull"
    /\ pipeline = "pull"
    /\ tokens = <<>>
    /\ IdleStages
    /\ IdleInfix

NextCalls ==
    \/ CollectToken \/ CollectStop \/ CollectErr
    \/ PullToken \/ PullStop \/ PullErr
    \/ InfixCall

SpecCalls == InitCalls /\ [][NextCalls]_vars

\* Every character of the text from the index i on is whitespace.
OnlyWhitespaceFrom(chars, i) == \A j \in i..Len(chars) : is_whitespace(chars[j])

\* The vector that collect_all_tokens returned holds no control token.
NoControlToken ==
    (pc = "done" /\ is_ok(result)) =>
        \A i \in 1..Len(result[2]) : result[2][i] \notin {Stop, Empty}

\* Infix::next_token returns Stop with the whole text consumed, and after Stop
\* it returns Stop.
StopIsLast ==
    /\ (returned' # returned /\ Last(returned') = Ok(Stop)) =>
            /\ chars_iterator' > Len(text)
            /\ OnlyWhitespaceFrom(text, chars_iterator)
    /\ (returned' # returned /\ returned # <<>> /\ Last(returned) = Ok(Stop)) =>
            Last(returned') = Ok(Stop)
    /\ (pc = "collect" /\ pc' = "done" /\ is_ok(result')) =>
            /\ chars_iterator' > Len(text)
            /\ OnlyWhitespaceFrom(text, chars_iterator)

\* C15: a token vector returned by collect_all_tokens, over Infix or over
\* Postfix, contains neither Stop nor Empty; a call of Infix::next_token returns
\* Stop only when every character of the text is consumed, and every call after
\* one that returned Stop returns Stop.
C15_ControlTokens == []NoControlToken /\ [][StopIsLast]_vars

\* A caller read two tokens, then Stop, and Stop again at each later call.
C15_Witness ==
    /\ pc = "call"
    /\ Len(returned) = MaxCalls
    /\ is_ok(returned[1])
    /\ is_ok(returned[2])
    /\ returned[1][2] # Stop
    /\ returned[2][2] # Stop
    /\ \A i \in 3..MaxCalls : returned[i] = Ok(Stop)

\* A plausible slip: the parentheses are skipped as Empty is.
Evaluator_token_skips_parenthesis(st, token) ==
    IF token \in {Empty, LeftParenthesis, RightParenthesis}
    THEN EvaluatorState(st.stack_operand, "")
    ELSE evaluate_token(st, token)

(***************************************************************************)
(* expression/evaluator.rs: Evaluator::evaluate over Postfix over Infix,    *)
(* one call of Postfix::next_token per step (SpecStream).                   *)
(***************************************************************************)
\* expression/evaluator.rs 29-67: one iteration of `while token != Token::Stop`;
\* the arms other than Empty are those of evaluator.rs.
Evaluator_token(st, token) ==
    IF token = Empty
    THEN EvaluatorState(st.stack_operand, "")
    ELSE evaluate_token(st, token)

\* A plausible slip: the top of the stack is returned, as a stack machine would.
Evaluator_return_top(operands) ==
    IF operands = <<>>
    THEN Panic("index out of bounds: the len is 0 but the index is 0")
    ELSE Ok(Last(operands))

\* expression/evaluator.rs 72; `stack_operand[0]` panics on an empty vector.
Evaluator_return(operands) ==
    IF operands = <<>>
    THEN Panic("index out of bounds: the len is 0 but the index is 0")
    ELSE Ok(operands[1])

\* expression/evaluator.rs 26, 69: `self.postfix_iterator.next_token()`, Postfix
\* over Infix on the text.
StreamStep ==
    Postfix_next_token(PostfixState(stack_operator, primary_operator), InfixStep.result)

StreamAdvance ==
    /\ stack_operator' = StreamStep.state.stack_operator
    /\ primary_operator' = StreamStep.state.primary_operator
    /\ IF primary_operator = <<>>
       THEN InfixAdvance
       ELSE UNCHANGED <<chars_iterator, last_extracted_token, is_first_token>>

EvaluatorStep == Evaluator_token(EvaluatorState(stack_operand, ""), StreamStep.result[2])

\* expression/evaluator.rs 28-69: next_token returned a token other than Stop.
EvaluatorToken ==
    /\ pc = "stream"
    /\ is_ok(StreamStep.result)
    /\ StreamStep.result[2] # Stop
    /\ stack_operand' = EvaluatorStep.stack_operand
    /\ IF EvaluatorStep.error # ""
       THEN result' = Err(EvaluatorStep.error) /\ pc' = "done"
       ELSE UNCHANGED <<result, pc>>
    /\ StreamAdvance
    /\ UNCHANGED <<text, src, oracle, tokenized, tokens, converted, posfix_tokens,
                   cursor, tokens_postfix, returned, variables, pipeline>>

\* expression/evaluator.rs 28, 72: next_token returned Stop.
EvaluatorStop ==
    /\ pc = "stream"
    /\ StreamStep.result = Ok(Stop)
    /\ result' = Evaluator_return(stack_operand)
    /\ pc' = "done"
    /\ StreamAdvance
    /\ UNCHANGED <<text, src, oracle, tokenized, tokens, converted, posfix_tokens,
                   cursor, tokens_postfix, stack_operand, returned, variables, pipeline>>

\* expression/evaluator.rs 26, 69: next_token returned Err.
EvaluatorErr ==
    /\ pc = "stream"
    /\ is_err(StreamStep.result)
    /\ result' = StreamStep.result
    /\ pc' = "done"
    /\ StreamAdvance
    /\ UNCHANGED <<text, src, oracle, tokenized, tokens, converted, posfix_tokens,
                   cursor, tokens_postfix, stack_operand, returned, variables, pipeline>>

\* Evaluator(Postfix(Infix(text))) on every text over TextChars.
InitStream ==
    /\ text \in Texts
    /\ src = <<>>
    /\ pc = "stream"
    /\ pipeline = "pull"
    /\ tokens = <<>>
    /\ IdleSteps
    /\ variables = NoVariables
    /\ tokenized = None
    /\ converted = None
    /\ posfix_tokens = <<>>
    /\ result = None
    /\ oracle \in OracleValues
    /\ IdleInfix

NextStream == EvaluatorToken \/ EvaluatorStop \/ EvaluatorErr

SpecStream == InitStream /\ [][NextStream]_vars

\* C14: for every text, Evaluator over Postfix over Infix returns what tokenize,
\* then infix_to_postfix, then postfix_evaluation return: the same value, or the
\* same error.
C14_StreamEqualsBatch ==
    pc = "done" => result = evaluate(text)

\* On the texts without lexical fault the two pipelines fail together and
\* return the same value when they succeed; the errors may differ.
StreamFailsWhereBatchFails ==
    (pc = "done" /\ FirstFault(text) = 0) =>
        /\ is_err(result) <=> is_err(evaluate(text))
        /\ ~is_err(result) => result = evaluate(text)

\* On the texts without lexical fault the two pipelines return the same error.
StreamErrorIsBatchError ==
    (pc = "done" /\ FirstFault(text) = 0 /\ is_err(result)) => result = evaluate(text)

(***************************************************************************)
(* evaluate with a map of variables (SpecVariables).  lib.rs 72 calls       *)
(* tokenizer::tokenize(expression, variables); the tokenizer that takes the *)
(* map is not among the sources, and is written here from section 4.1 of    *)
(* the specification: the scanner of Infix, where a word is resolved        *)
(* against the constants, then the functions, then the map.                 *)
(***************************************************************************)
\* A plausible slip: the map is looked up before the two tables.
resolve_word_map_first(name, map) ==
    IF name \in DOMAIN map THEN Ok(Constant(map[name]))
    ELSE IF is_constant(name) THEN Token_new_constant(name)
    ELSE IF Function_is_fun(name) THEN Token_new_function(name)
    ELSE ErrFormat("The string {} does not correspond to existing tokens", name)

\* The token of a word: a constant, else a function, else a variable of the map.
resolve_word(name, map) ==
    IF is_constant(name) THEN Token_new_constant(name)
    ELSE IF Function_is_fun(name) THEN Token_new_function(name)
    ELSE IF name \in DOMAIN map THEN Ok(Constant(map[name]))
    ELSE ErrFormat("The string {} does not correspond to existing tokens", name)

\* The next token of the text: the token of the word that starts at the next
\* character other than whitespace, or what the scanner without map returns.
Variables_next_token(chars, st, map) ==
    LET i == extract_if(chars, st.chars_iterator, is_whitespace).next
    IN  IF i <= Len(chars) /\ is_alphanumeric(chars[i]) /\ ~is_digit(chars[i])
        THEN Infix_return(extract_word(chars, i).next,
                          resolve_word(extract_word(chars, i).substr, map))
        ELSE Infix_next_token(chars, st)

Variables_collected(chars, map, step, acc) ==
    [done |-> is_err(step.result) \/ step.result[2] = Stop,
     state |-> step.state,
     acc |-> IF is_err(step.result) THEN step.result
             ELSE IF step.result[2] = Stop THEN Ok(acc)
             ELSE Append(acc, step.result[2])]

RECURSIVE Variables_collect(_, _, _, _)
Variables_collect(chars, st, map, acc) ==
    LET c == Variables_collected(chars, map, Variables_next_token(chars, st, map), acc)
    IN  IF c.done THEN c.acc ELSE Variables_collect(chars, c.state, map, c.acc)

\* tokenize(expression, variables): the tokens of the text, or the first error.
tokenize_with_variables(expression, map) ==
    Variables_collect(expression, Infix_new, map, <<>>)

\* lib.rs 72.
TokenizeWithVariables ==
    /\ pc = "tokenize"
    /\ tokenized' = tokenize_with_variables(text, variables)
    /\ IF is_ok(tokenized')
       THEN tokens' = tokenized'[2] /\ pc' = "convert" /\ UNCHANGED result
       ELSE result' = tokenized' /\ pc' = "done" /\ UNCHANGED tokens
    /\ UNCHANGED <<text, src, oracle, converted, posfix_tokens,
                   chars_iterator, last_extracted_token, is_first_token>>
    /\ UNCHANGED <<converter_vars, stream_vars>>

VariableChars == {"e", "x", "l", "n", "0", "+", "(", ")"}
VariableTexts == UNION {[1..n -> VariableChars] : n \in 1..MaxTextLen}

\* No variable; x; x and a variable named like the constant e; a variable named
\* like the function ln and xx.
VariableMaps ==
    {NoVariables,
     [name \in {<<"x">>} |-> F64(3, 2)],
     [name \in {<<"x">>, <<"e">>} |-> IF name = <<"x">> THEN F64(3, 2) ELSE F64(0, 1)],
     [name \in {<<"l", "n">>, <<"x", "x">>} |-> F64(3, 2)]}

InitVariables ==
    /\ text \in VariableTexts
    /\ variables \in VariableMaps
    /\ src = <<>>
    /\ pc = "tokenize"
    /\ pipeline = "batch"
    /\ tokens = <<>>
    /\ IdleSteps
    /\ tokenized = None
    /\ converted = None
    /\ posfix_tokens = <<>>
    /\ result = None
    /\ oracle = 0
    /\ IdleInfix

NextVariables == TokenizeWithVariables \/ Convert \/ Evaluate

SpecVariables == InitVariables /\ [][NextVariables]_vars

\* The words of the text from the index i on, in order: the maximal runs of
\* letters, digits and _ that start with a letter outside a numeric literal.
RECURSIVE RefWords(_, _)
RefWords(chars, i) ==
    IF i > Len(chars) THEN <<>>
    ELSE IF chars[i] \in Letters
    THEN <<SubSeq(chars, i, RefRunEnd(chars, i, Letters \cup Digits \cup {"_"}) - 1)>>
         \o RefWords(chars, RefRunEnd(chars, i, Letters \cup Digits \cup {"_"}))
    ELSE IF chars[i] \in Digits
    THEN RefWords(chars, RefRunEnd(chars, i, Digits \cup {"."}))
    ELSE RefWords(chars, i + 1)

IsWordToken(token) == token[1] \in {"Constant", "Function"}

\* The token the claim gives a word: the constant of that name, else the
\* function of that name, else the value the map gives the name.
RefWordToken(word, map) ==
    IF RefKnownWord(word)
    THEN CASE word = <<"e">> -> Constant(E)
           [] word = <<"l", "n">> -> Function("Ln")
    ELSE Constant(map[word])

\* C12: evaluate with a map of variables resolves a word as a constant, else as a
\* function, else as a variable of the map: the tokens of the words of the text
\* are the constant or the function of that name whatever the map holds under
\* it, and else a numeric token with the value of the map; a text with a word
\* that is none of the three makes evaluate return the tokenizer's Err; a text
\* that is one variable evaluates to its value.
C12_WordResolution ==
    LET words == RefWords(text, 1)
        unknown == {k \in 1..Len(words) :
                        ~RefKnownWord(words[k]) /\ words[k] \notin DOMAIN variables}
    IN  /\ (tokenized # None /\ unknown # {}) =>
                /\ is_err(tokenized)
                /\ pc = "done"
                /\ result = tokenized
                /\ converted = None
        /\ (tokenized # None /\ is_ok(tokenized)) =>
                /\ unknown = {}
                /\ SelectSeq(tokenized[2], IsWordToken) =
                        [k \in 1..Len(words) |-> RefWordToken(words[k], variables)]
        /\ (pc = "done" /\ Len(words) = 1 /\ words[1] = text
                /\ ~RefKnownWord(text) /\ text \in DOMAIN variables) =>
                result = Ok(variables[text])

\* A text with the constant e and the variable x, under a map that holds both
\* names, evaluated to a value: e is the constant, x the value of the map.
C12_Witness ==
    /\ pc = "done"
    /\ text = <<"x", "+", "e">>
    /\ DOMAIN variables = {<<"x">>, <<"e">>}
    /\ tokenized = Ok(<<Constant(F64(3, 2)), BinaryOperator("Plus"), Constant(E)>>)
    /\ is_ok(result)

(***************************************************************************)
(* The output of the converter as a rearrangement of its input (SpecTokens) *)
(***************************************************************************)
IsParenthesis(token) == token[1] \in {"LeftParenthesis", "RightParenthesis"}

IsOperand(token) == token[1] \in {"Number", "Constant"}

\* The number of occurrences of the token x in s.
Occurrences(s, x) == Cardinality({i \in 1..Len(s) : s[i] = x})

\* C21: when infix_to_postfix returns Ok, every token other than a parenthesis
\* occurs in the output as many times as in the input, the output holds no other
\* token and no parenthesis, its length is the length of the input less the
\* number of its parentheses, and the Number and Constant tokens stand in the
\* output in the order they have in the input.
C21_OutputIsPermutation ==
    (Converted /\ is_ok(converted)) =>
        LET output == converted[2]
        IN  /\ \A i \in 1..Len(tokens) :
                    ~IsParenthesis(tokens[i]) =>
                        Occurrences(output, tokens[i]) = Occurrences(tokens, tokens[i])
            /\ \A j \in 1..Len(output) :
                    /\ ~IsParenthesis(output[j])
                    /\ Occurrences(tokens, output[j]) > 0
            /\ Len(output) = Len(tokens) - Len(SelectSeq(tokens, IsParenthesis))
            /\ SelectSeq(output, IsOperand) = SelectSeq(tokens, IsOperand)

\* A sequence with two different operands, an operator and a pair of
\* parentheses was converted: three tokens out of five.
C21_Witness ==
    /\ Converted
    /\ is_ok(converted)
    /\ Len(tokens) = 5
    /\ Len(converted[2]) = 3
    /\ tokens[1] = LeftParenthesis
    /\ tokens[3][1] = "BinaryOperator"
    /\ tokens[2] # tokens[4]
    /\ converted[2][1] = tokens[2]
    /\ converted[2][2] = tokens[4]

(***************************************************************************)
(* The two evaluators, one token at a time (SpecPostfix): postfix_evaluation *)
(* one iteration of its loop per step, and Evaluator::evaluate over the      *)
(* vector-backed MockPostfix one call of next_token per step.                *)
(***************************************************************************)
\* expression/evaluator.rs 107-114: MockPostfix::next_token.
MockPostfix_next_token(ts, i) ==
    IF i <= Len(ts)
    THEN [next |-> i + 1, result |-> Ok(ts[i])]
    ELSE [next |-> i, result |-> Ok(Stop)]

EvaluateStep ==
    evaluate_token(EvaluatorState(stack_operand, ""), posfix_tokens[cursor])

postfix_vars ==
    <<text, src, oracle, tokenized, tokens, converted, posfix_tokens,
      chars_iterator, last_extracted_token, is_first_token,
      stack_operator, primary_operator, tokens_postfix, returned, variables, pipeline>>

\* evaluator.rs 28-67: one iteration of `for token in tokens`.
EvaluateRead ==
    /\ pc = "for"
    /\ cursor <= Len(posfix_tokens)
    /\ stack_operand' = EvaluateStep.stack_operand
    /\ cursor' = cursor + 1
    /\ IF EvaluateStep.error # ""
       THEN result' = Err(EvaluateStep.error) /\ pc' = "done"
       ELSE UNCHANGED <<result, pc>>
    /\ UNCHANGED postfix_vars

\* evaluator.rs 69: `return Ok(stack_operand[0])`, which panics on an empty vector.
EvaluateReturn ==
    /\ pc = "for"
    /\ cursor > Len(posfix_tokens)
    /\ result' = IF stack_operand = <<>>
                 THEN Panic("index out of bounds: the len is 0 but the index is 0")
                 ELSE Ok(stack_operand[1])
    /\ pc' = "done"
    /\ UNCHANGED <<cursor, stack_operand, postfix_vars>>

MockStep == MockPostfix_next_token(posfix_tokens, cursor)

EvaluatorMockStep ==
    Evaluator_token(EvaluatorState(stack_operand, ""), MockStep.result[2])

\* expression/evaluator.rs 28-69 over MockPostfix: a token other than Stop.
EvaluatorMockToken ==
    /\ pc = "while"
    /\ MockStep.result[2] # Stop
    /\ stack_operand' = EvaluatorMockStep.stack_operand
    /\ cursor' = MockStep.next
    /\ IF EvaluatorMockStep.error # ""
       THEN result' = Err(EvaluatorMockStep.error) /\ pc' = "done"
       ELSE UNCHANGED <<result, pc>>
    /\ UNCHANGED postfix_vars

\* expression/evaluator.rs 28, 72 over MockPostfix: Stop.
EvaluatorMockStop ==
    /\ pc = "while"
    /\ MockStep.result = Ok(Stop)
    /\ result' = Evaluator_return(stack_operand)
    /\ pc' = "done"
    /\ UNCHANGED <<cursor, stack_operand, postfix_vars>>

PostfixAlphabet ==
    {Number(F64(0, 1)), Number(F64(3, 2)), BinaryOperator("Minus"),
     BinaryOperator("Divide"), UnaryOperator("Minus"),
     Function("Sqrt"), LeftParenthesis, RightParenthesis}
PostfixSeqs == UNION {[1..n -> PostfixAlphabet] : n \in 0..MaxPostfix}

\* The f64 values an operator or a function is applied to.
ArgValues ==
    {F64(-2, 1), F64(-1, 1), F64(-1, 2), F64(0, 1), F64(1, 2), F64(1, 1), F64(3, 2),
     F64(2, 1)}

FunctionNames ==
    {"Abs", "Sqrt", "Cbrt", "Exp", "Ln", "Log10", "Log2", "Sin", "Cos", "Tan", "Asin",
     "Acos", "Atan", "Sinh", "Cosh", "Tanh", "Asinh", "Acosh", "Atanh"}

\* a f and a b op, for every function, every binary operator and every value.
ApplySeqs ==
    {<<Number(a), Function(f)>> : a \in ArgValues, f \in FunctionNames}
    \cup {<<Number(a), Number(b), op>> : a \in ArgValues, b \in ArgValues, op \in AllBinary}

\* An evaluator on an arbitrary token sequence, on the application of a function
\* or of an operator to values, or on what infix_to_postfix returns for a
\* sequence of the grammar.
InitPostfix ==
    /\ \/ /\ src = <<>>
          /\ posfix_tokens \in PostfixSeqs \cup ApplySeqs
       \/ /\ src \in GrammarSeqs \cup ArithSeqs
          /\ posfix_tokens = infix_to_postfix(src)[2]
    /\ pipeline \in {"batch", "pull"}
    /\ pc = IF pipeline = "batch" THEN "for" ELSE "while"
    /\ oracle \in OracleValues
    /\ text = <<>>
    /\ tokens = <<>>
    /\ IdleSteps
    /\ variables = NoVariables
    /\ tokenized = None
    /\ converted = None
    /\ result = None
    /\ IdleInfix

NextPostfix == EvaluateRead \/ EvaluateReturn \/ EvaluatorMockToken \/ EvaluatorMockStop

SpecPostfix == InitPostfix /\ [][NextPostfix]_vars

\* The invariant of the typing of the evaluators' state.
PostfixTypeOK ==
    /\ pc \in {"for", "while", "done"}
    /\ cursor \in 1..(Len(posfix_tokens) + 1)

\* An evaluator is about to read the token at the cursor.
Reading(kind) ==
    /\ pc \in {"for", "while"}
    /\ cursor <= Len(posfix_tokens)
    /\ posfix_tokens[cursor][1] = kind
    /\ cursor' = cursor + 1

Depth == Len(stack_operand)

\* The step returned this error: nothing is read after it.
ReturnsErr(message) == result' = Err(message) /\ pc' = "done"

\* The step replaced the `popped` topmost values by one value and goes on.
Pushes(popped, value) ==
    /\ stack_operand' = Append(SubSeq(stack_operand, 1, Depth - popped), value)
    /\ pc' = pc
    /\ result' = result

\* C22: on a BinaryOperator either evaluator pops the right operand first and
\* the left one second and pushes op(left, right), so that a b - is a - b,
\* a b / is a / b and a b ^ is a ^ b; on an empty stack it returns the
\* missing-right-operand error and on a stack of one value the
\* missing-left-operand error.
C22_BinaryOperatorStep ==
    [][Reading("BinaryOperator") =>
        LET ops == posfix_tokens[cursor][2]
            right == stack_operand[Depth]
            left == stack_operand[Depth - 1]
        IN  CASE Depth = 0 ->
                    ReturnsErr("Missing right operand to apply binary operation")
              [] Depth = 1 ->
                    ReturnsErr("Missing left operand to apply binary operation")
              [] OTHER ->
                    CASE ops = "Plus" -> Pushes(2, <<"add", left, right>>)
                      [] ops = "Minus" -> Pushes(2, <<"sub", left, right>>)
                      [] ops = "Multiply" -> Pushes(2, <<"mul", left, right>>)
                      [] ops = "Power" -> Pushes(2, <<"powf", left, right>>)
                      [] ops = "Divide" ->
                            \/ Pushes(2, <<"div", left, right>>)
                            \/ ReturnsErr("Division by zero")]_vars

C22_Witness ==
    /\ pc = "done"
    /\ pipeline = "pull"
    /\ posfix_tokens = <<Number(F64(3, 2)), Number(F64(0, 1)), BinaryOperator("Minus")>>
    /\ result = Ok(<<"sub", F64(3, 2), F64(0, 1)>>)

\* The evaluation has ended on the token before the cursor, which may not be the last.
EndedOnToken == pc = "done" /\ is_err(result)

\* C23: either evaluator returns Err, and no value, as soon as it reaches a
\* UnaryOperator or a Function on an empty operand stack, or a LeftParenthesis
\* or a RightParenthesis at any depth of the stack; the tokens after the failing
\* one have no influence: the result is the one of the sequence cut after the
\* failing token, and it never changes afterwards.
C23_ErrAtFailingToken ==
    /\ [][/\ (Reading("UnaryOperator") /\ Depth = 0) =>
                ReturnsErr("Missing operand to apply unary operation")
          /\ (Reading("Function") /\ Depth = 0) =>
                ReturnsErr("Missing argument to apply function")
          /\ (Reading("LeftParenthesis") \/ Reading("RightParenthesis")) =>
                ReturnsErr("Token non-accepted for evaluation of postfix expression")
          /\ pc = "done" => result' = result]_vars
    /\ [](EndedOnToken =>
            result = postfix_evaluation(SubSeq(posfix_tokens, 1, cursor - 1)))

C23_Witness ==
    /\ EndedOnToken
    /\ pipeline = "pull"
    /\ Len(posfix_tokens) = 4
    /\ cursor = 3
    /\ Depth = 1
    /\ posfix_tokens[2] = RightParenthesis
    /\ posfix_tokens[4][1] = "Number"
    /\ result = Err("Token non-accepted for evaluation of postfix expression")

\* An evaluator has read every token and is about to return.
AtEndOfInput == pc \in {"for", "while"} /\ cursor > Len(posfix_tokens)

\* The evaluator was given what infix_to_postfix returned for a sequence of the
\* grammar: InitPostfix records that sequence, which is never empty, in src.
FromGrammar == src # <<>>

MissingOperandErrors ==
    {"Missing right operand to apply binary operation",
     "Missing left operand to apply binary operation",
     "Missing operand to apply unary operation",
     "Missing argument to apply function"}

\* C24: at the end of the input either evaluator returns the bottom slot of the
\* operand stack, whatever lies above it; and on what the converter returns
\* for an expression of the grammar the stack holds exactly one value at that
\* point and no missing-operand error has ended the evaluation before it.
C24_EndOfInput ==
    /\ [][(AtEndOfInput /\ Depth > 0) =>
            (result' = Ok(stack_operand[1]) /\ pc' = "done")]_vars
    /\ [](FromGrammar =>
            /\ AtEndOfInput => Depth = 1
            /\ EndedOnToken => result[2] \notin MissingOperandErrors)

C24_Witness ==
    /\ pc = "done"
    /\ pipeline = "pull"
    /\ FromGrammar
    /\ Len(src) = 5
    /\ Len(posfix_tokens) = 3
    /\ cursor = 4
    /\ Depth = 1
    /\ result = Ok(stack_operand[1])

\* Above the bottom slot lies a value the evaluators do not return.
C24_WitnessBottom ==
    /\ pc = "done"
    /\ Depth = 2
    /\ stack_operand[1] # stack_operand[2]
    /\ result = Ok(stack_operand[1])

\* The f64 is written as a literal: its value is the rational it denotes.
IsLiteral(v) == v[1] = "num"

\* The step returned this error after popping `popped` values and pushing none.
PropagatesErr(popped, message) ==
    /\ ReturnsErr(message)
    /\ stack_operand' = SubSeq(stack_operand, 1, Depth - popped)

\* C25: Divide returns Err("Division by zero") exactly when its right operand is
\* zero, whatever the left one; either evaluator returns that error and pushes
\* nothing; Plus, Minus, Multiply and Power never return Err.
C25_DivisionByZero ==
    [][(Reading("BinaryOperator") /\ Depth >= 2) =>
        LET ops == posfix_tokens[cursor][2]
            right == stack_operand[Depth]
            left == stack_operand[Depth - 1]
        IN  IF ops = "Divide"
            THEN /\ \/ PropagatesErr(2, "Division by zero")
                    \/ Pushes(2, <<"div", left, right>>)
                 /\ IsLiteral(right) => (ReturnsErr("Division by zero") <=> right[2] = 0)
            ELSE pc' = pc /\ result' = result /\ Len(stack_operand') = Depth - 1]_vars

C25_Witness ==
    /\ pc = "done"
    /\ pipeline = "batch"
    /\ posfix_tokens = <<Number(F64(-2, 1)), Number(F64(0, 1)), BinaryOperator("Divide")>>
    /\ result = Err("Division by zero")
    /\ stack_operand = <<>>

\* A zero on the left of a division is no error.
C25_WitnessLeftZero ==
    /\ pc = "done"
    /\ posfix_tokens = <<Number(F64(0, 1)), Number(F64(-2, 1)), BinaryOperator("Divide")>>
    /\ result = Ok(<<"div", F64(0, 1), F64(-2, 1)>>)

\* The step applied the function to the top of the stack and goes on.
AppliesFunction == pc' = pc /\ result' = result /\ Len(stack_operand') = Depth

\* The step ended the evaluation on an error of the function.
FunctionFails == pc' = "done" /\ is_err(result')

Unconstrained ==
    {"Abs", "Cbrt", "Exp", "Sin", "Cos", "Atan",
     "Sinh", "Cosh", "Tanh", "Asinh", "Acosh", "Atanh"}

\* C26: Function::apply returns Err exactly when the argument violates the
\* function's rule: Sqrt iff the argument is below 0, Ln, Log10 and Log2 iff it
\* is at most 0, Asin and Acos iff it lies outside [-1, 1]; Abs, Cbrt, Exp,
\* Sin, Cos, Atan and the six hyperbolic functions return Ok for every argument.
\* The argument n/d is a literal, d > 0.
C26_FunctionDomain ==
    [][(Reading("Function") /\ Depth >= 1 /\ IsLiteral(stack_operand[Depth])) =>
        LET fun == posfix_tokens[cursor][2]
            n == stack_operand[Depth][2]
            d == stack_operand[Depth][3]
        IN  /\ AppliesFunction \/ FunctionFails
            /\ fun = "Sqrt" => (FunctionFails <=> n < 0)
            /\ fun \in {"Ln", "Log10", "Log2"} => (FunctionFails <=> n <= 0)
            /\ fun \in {"Asin", "Acos"} => (FunctionFails <=> (n < -d \/ n > d))
            /\ fun \in Unconstrained => AppliesFunction]_vars

C26_Witness ==
    /\ pc = "done"
    /\ pipeline = "batch"
    /\ posfix_tokens = <<Number(F64(0, 1)), Function("Ln")>>
    /\ is_err(result)

\* The bounds of the domains that are accepted.
C26_WitnessAccepted ==
    /\ pc = "done"
    /\ \/ /\ posfix_tokens = <<Number(F64(0, 1)), Function("Sqrt")>>
          /\ result = Ok(<<"sqrt", F64(0, 1)>>)
       \/ /\ posfix_tokens = <<Number(F64(-1, 1)), Function("Asin")>>
          /\ result = Ok(<<"asin", F64(-1, 1)>>)
       \/ /\ posfix_tokens = <<Number(F64(1, 2)), Function("Acosh")>>
          /\ result = Ok(<<"acosh", F64(1, 2)>>)

\* C30: on every finite token sequence, the empty one and those without a Number
\* or a Constant included, postfix_evaluation and Evaluator::evaluate end by
\* returning Ok or Err, and never read slot 0 of an empty operand stack.
C30_ReturnsOkOrErr ==
    pc = "done" => (is_ok(result) \/ is_err(result))

\* The conversion of an empty parenthesis pair succeeds and returns no token.
C30_EmptyPairConverts ==
    infix_to_postfix(<<LeftParenthesis, RightParenthesis>>) = Ok(<<>>)

(***************************************************************************)
(* The tokenizers on texts of literals, words and whitespace (SpecLexer):   *)
(* Infix one call of next_token per step, under collect_all_tokens or       *)
(* called directly, and the batch tokenize of tokenizer.rs.                 *)
(***************************************************************************)
NumberChars == {"1", "5", ".", "-", "(", " "}
WordChars == {"e", "p", "i", "c", "l", "n", "_", "1", " "}
GlyphChars == {"*", "/", "^", "-", "(", "1", " "}
LexerTexts ==
    UNION {[1..n -> NumberChars] \cup [1..n -> WordChars] \cup [1..n -> GlyphChars] :
           n \in 0..MaxTextLen}

\* tokenizer.rs 146-149: tokenize called on the text, outside evaluate.
TokenizeText ==
    /\ pc = "lex"
    /\ tokenized' = tokenize(text)
    /\ pc' = "done"
    /\ UNCHANGED <<text, src, oracle, tokens, converted, posfix_tokens, result,
                   chars_iterator, last_extracted_token, is_first_token>>
    /\ UNCHANGED <<converter_vars, stream_vars>>

InitLexer ==
    /\ text \in LexerTexts
    /\ src = <<>>
    /\ pc \in {"collect", "call", "lex"}
    /\ pipeline = IF pc = "lex" THEN "batch" ELSE "pull"
    /\ tokens = <<>>
    /\ IdleStages
    /\ IdleInfix

NextLexer ==
    \/ CollectToken \/ CollectStop \/ CollectErr
    \/ InfixCall
    \/ TokenizeText

SpecLexer == InitLexer /\ [][NextLexer]_vars

\* The invariant of the typing of the tokenizers' state.
LexerTypeOK ==
    /\ chars_iterator \in 1..(Len(text) + 1)
    /\ Len(returned) <= MaxCalls
    /\ Len(tokens) <= Len(text)

\* Infix::next_token is about to be called, by collect_all_tokens or directly.
Calling == pc \in {"collect", "call"} /\ chars_iterator' # chars_iterator

\* The first character the call does not skip as whitespace.
CurrentIndex == RefRunEnd(text, chars_iterator, {" "})

\* The call returned this token.
Emits(token) ==
    IF pc = "call"
    THEN returned' = Append(returned, Ok(token))
    ELSE tokens' = Append(tokens, token) /\ pc' = pc

\* The call returned an error and no token.
EmitsErr ==
    IF pc = "call"
    THEN Len(returned') = Len(returned) + 1 /\ is_err(returned'[Len(returned')])
    ELSE tokens' = tokens /\ pc' = "done" /\ is_err(result')

\* The numerator of the decimal a run of digits with at most one '.' writes.
RECURSIVE RefNumerator(_)
RefNumerator(run) ==
    IF run = <<>> THEN 0
    ELSE IF Last(run) = "." THEN RefNumerator(Front(run))
    ELSE 10 * RefNumerator(Front(run)) + DigitValue(Last(run))

\* The number of digits the run writes after its '.'.
RefDecimals(run) ==
    IF \E j \in 1..Len(run) : run[j] = "."
    THEN Len(run) - (CHOOSE j \in 1..Len(run) : run[j] = ".")
    ELSE 0

\* C27: when the current character is a digit, Infix::next_token consumes the
\* maximal run of digits and '.', and returns one Number with the value the run
\* writes when it holds at most one '.', an error and no Number when it holds
\* more; the character after the run is the next one to be read.
C27_NumberRun ==
    [][(Calling /\ CurrentIndex <= Len(text) /\ text[CurrentIndex] \in Digits) =>
        LET end == RefRunEnd(text, CurrentIndex, Digits \cup {"."})
            run == SubSeq(text, CurrentIndex, end - 1)
        IN  /\ chars_iterator' = end
            /\ IF RefDots(text, CurrentIndex, end) <= 1
               THEN Emits(Number(F64(RefNumerator(run), NatPow(10, RefDecimals(run)))))
               ELSE EmitsErr]_vars

C27_Witness ==
    /\ pc = "call"
    /\ text = <<"1", ".", "5", "-">>
    /\ returned = <<Ok(Number(F64(3, 2)))>>
    /\ chars_iterator = 4

\* A run with two '.' is consumed whole and is an error.
C27_WitnessTwoDots ==
    /\ pc = "done"
    /\ text = <<"1", ".", "5", ".">>
    /\ tokens = <<>>
    /\ pipeline = "pull"
    /\ is_err(result)
    /\ chars_iterator = 5

\* The 19 names of functions.rs and the function each one denotes.
FunctionNameTable ==
    {<<<<"a", "b", "s">>, "Abs">>, <<<<"s", "q", "r", "t">>, "Sqrt">>,
     <<<<"c", "b", "r", "t">>, "Cbrt">>, <<<<"e", "x", "p">>, "Exp">>,
     <<<<"l", "n">>, "Ln">>, <<<<"l", "o", "g", "1", "0">>, "Log10">>,
     <<<<"l", "o", "g", "2">>, "Log2">>, <<<<"s", "i", "n">>, "Sin">>,
     <<<<"c", "o", "s">>, "Cos">>, <<<<"t", "a", "n">>, "Tan">>,
     <<<<"a", "s", "i", "n">>, "Asin">>, <<<<"a", "c", "o", "s">>, "Acos">>,
     <<<<"a", "t", "a", "n">>, "Atan">>, <<<<"s", "i", "n", "h">>, "Sinh">>,
     <<<<"c", "o", "s", "h">>, "Cosh">>, <<<<"t", "a", "n", "h">>, "Tanh">>,
     <<<<"a", "s", "i", "n", "h">>, "Asinh">>, <<<<"a", "c", "o", "s", "h">>, "Acosh">>,
     <<<<"a", "t", "a", "n", "h">>, "Atanh">>}

IsFunctionName(word) == \E entry \in FunctionNameTable : entry[1] = word
FunctionOfName(word) == (CHOOSE entry \in FunctionNameTable : entry[1] = word)[2]

\* The call returned the error that names the word, and no token.
EmitsUnknownWord(word) ==
    LET error == ErrFormat("The string {} does not correspond to existing tokens", word)
    IN  IF pc = "call"
        THEN returned' = Append(returned, error)
        ELSE tokens' = tokens /\ pc' = "done" /\ result' = error

\* C29: a word is the maximal run of alphanumeric or underscore characters from
\* the current character and is resolved as a whole: Constant iff it is exactly
\* pi, e or c, else Function iff it is exactly one of the 19 function names,
\* else an error naming the word; a word that starts with a constant or a
\* function name is never split.
C29_WordResolvedWhole ==
    [][(Calling /\ CurrentIndex <= Len(text) /\ text[CurrentIndex] \in Letters) =>
        LET end == RefRunEnd(text, CurrentIndex, Letters \cup Digits \cup {"_"})
            word == SubSeq(text, CurrentIndex, end - 1)
        IN  /\ chars_iterator' = end
            /\ CASE word = <<"p", "i">> -> Emits(Constant(PI))
                 [] word = <<"e">> -> Emits(Constant(E))
                 [] word = <<"c">> -> Emits(Constant(C))
                 [] OTHER ->
                        IF IsFunctionName(word)
                        THEN Emits(Function(FunctionOfName(word)))
                        ELSE EmitsUnknownWord(word)]_vars

C29_Witness ==
    /\ pc = "call"
    /\ text = <<"p", "i", "e", " ">>
    /\ returned =
        <<ErrFormat("The string {} does not correspond to existing tokens", <<"p", "i", "e">>)>>
    /\ chars_iterator = 4

\* The words that are names: two constants and a function.
C29_WitnessNames ==
    /\ pc = "done"
    /\ pipeline = "pull"
    /\ text = <<"c", " ", "l", "n">>
    /\ result = Ok(<<Constant(C), Function("Ln")>>)

\* token_iterator.rs 11-28: collect_all_tokens over Infix, as a function of the text.
RECURSIVE Infix_collect(_, _, _)
Infix_collect(chars, st, acc) ==
    LET step == Infix_next_token(chars, st)
    IN  IF is_err(step.result) THEN collect_error(step.result, acc)
        ELSE IF step.result[2] = Stop THEN Ok(acc)
        ELSE Infix_collect(chars, step.state,
                           IF step.result[2] # Empty THEN Append(acc, step.result[2])
                           ELSE acc)

collect_all_tokens(chars) == Infix_collect(chars, Infix_new, <<>>)

\* The positions of the text where a call of Infix::next_token starts or ends:
\* the places before the first token, between two tokens and after the last.
RECURSIVE TokenBounds(_, _)
TokenBounds(chars, st) ==
    LET step == Infix_next_token(chars, st)
    IN  {st.chars_iterator, step.state.chars_iterator}
        \cup (IF is_err(step.result) \/ step.result[2] = Stop THEN {}
              ELSE TokenBounds(chars, step.state))

\* The text without its whitespace.
Squeeze(chars) == SelectSeq(chars, LAMBDA c : c # " ")

\* The positions of Squeeze(chars) before which chars has whitespace.
WhitespaceAt(chars) ==
    {Len(Squeeze(SubSeq(chars, 1, j))) + 1 : j \in {k \in 1..Len(chars) : chars[k] = " "}}

\* The whitespace of the text lies before, between or after the tokens of the
\* text without it, and not inside one.
WhitespaceBetweenTokens ==
    /\ \E j \in 1..Len(text) : text[j] = " "
    /\ WhitespaceAt(text) \subseteq TokenBounds(Squeeze(text), Infix_new)

\* C28: whitespace before the first token, between two tokens or after the last
\* one has no effect: collect_all_tokens over Infix and tokenize return for the
\* text what they return for the text without that whitespace, the same
\* tokens or the same error.
C28_WhitespaceIgnored ==
    WhitespaceBetweenTokens =>
        /\ (pc = "done" /\ pipeline = "pull") => result = collect_all_tokens(Squeeze(text))
        /\ tokenized # None => tokenized = tokenize(Squeeze(text))

C28_Witness ==
    /\ pc = "done"
    /\ pipeline = "pull"
    /\ text = <<" ", "-", " ", "1">>
    /\ WhitespaceBetweenTokens
    /\ result = Ok(<<UnaryOperator("Minus"), Number(F64(1, 1))>>)

\* The same for the batch tokenizer, the whitespace after a left parenthesis.
C28_WitnessBatch ==
    /\ pipeline = "batch"
    /\ text = <<"(", " ", "-", "1">>
    /\ WhitespaceBetweenTokens
    /\ tokenized = Ok(<<LeftParenthesis, UnaryOperator("Minus"), Number(F64(1, 1))>>)

\* Every prefix of the sequence has at least as many LeftParenthesis as
\* RightParenthesis, and the sequence as many of the one as of the other.
BalancedParentheses(s) ==
    /\ \A n \in 0..Len(s) :
            Occurrences(SubSeq(s, 1, n), LeftParenthesis)
                >= Occurrences(SubSeq(s, 1, n), RightParenthesis)
    /\ Occurrences(s, LeftParenthesis) = Occurrences(s, RightParenthesis)

\* C31: infix_to_postfix returns Ok, and so never the mismatched-parenthesis
\* error, for a token sequence whose parentheses are balanced, whatever
\* operators, functions and operands surround them.
C31_BalancedConverts ==
    (Converted /\ BalancedParentheses(tokens)) => is_ok(converted)

C31_Witness ==
    /\ Converted
    /\ BalancedParentheses(tokens)
    /\ Len(tokens) = 4
    /\ tokens[1] = LeftParenthesis
    /\ tokens[2][1] = "BinaryOperator"
    /\ tokens[3] = RightParenthesis
    /\ tokens[4][1] = "Function"
    /\ is_ok(converted)

\* The call returned this error and no token.
Fails(error) ==
    IF pc = "call"
    THEN returned' = Append(returned, error)
    ELSE tokens' = tokens /\ pc' = "done" /\ result' = error

\* No token was returned before the call, or the last one returned is a
\* LeftParenthesis.
UnaryPosition ==
    IF pc = "call"
    THEN returned = <<>> \/ Last(returned) = Ok(LeftParenthesis)
    ELSE tokens = <<>> \/ Last(tokens) = LeftParenthesis

\* C32: the glyph *, / or ^ as the first token of the text or directly after a
\* LeftParenthesis makes Infix::next_token return
\* Err("Unknown operator characters"): no BinaryOperator and no UnaryOperator
\* is returned for it.
C32_GlyphInUnaryPosition ==
    [][(/\ Calling
        /\ CurrentIndex <= Len(text)
        /\ text[CurrentIndex] \in {"*", "/", "^"}
        /\ UnaryPosition) =>
            /\ Fails(Err("Unknown operator characters"))
            /\ chars_iterator' = CurrentIndex + 1]_vars

C32_Witness ==
    /\ pc = "call"
    /\ text = <<"(", " ", "^", "1">>
    /\ returned = <<Ok(LeftParenthesis), Err("Unknown operator characters")>>
    /\ chars_iterator = 4

\* The same glyph after an operand is a binary operator.
C32_WitnessBinary ==
    /\ pc = "call"
    /\ text = <<"1", "*", "/", "1">>
    /\ Len(returned) = 3
    /\ returned[2] = Ok(BinaryOperator("Multiply"))
    /\ returned[3] = Ok(BinaryOperator("Divide"))

(***************************************************************************)
(* Postfix::next_token called again and again by its caller (SpecPolls),    *)
(* over MockInfix on a token vector or over Infix on a text; result holds   *)
(* what the last call returned.                                             *)
(***************************************************************************)
\* postfix.rs 51-133 over MockInfix: one call of Postfix::next_token.
PostfixCall ==
    /\ pc = "poll"
    /\ result' = PostfixStep.result
    /\ PostfixAdvance
    /\ UNCHANGED <<src, pc, tokens, tokens_postfix, other_vars>>

\* postfix.rs 51-133 over Infix: one call of Postfix::next_token.
PostfixCallText ==
    /\ pc = "poll_text"
    /\ result' = StreamStep.result
    /\ StreamAdvance
    /\ UNCHANGED <<text, src, oracle, pc, tokenized, tokens, converted, posfix_tokens,
                   cursor, tokens_postfix, stream_vars>>

InitPolls ==
    /\ \/ /\ src \in TokenSeqs \cup GrammarSeqs
          /\ text = <<>>
          /\ pc = "poll"
       \/ /\ src = <<>>
          /\ text \in InfixTexts
          /\ pc = "poll_text"
    /\ pipeline = "pull"
    /\ tokens = <<>>
    /\ IdleStages
    /\ IdleInfix

NextPolls == PostfixCall \/ PostfixCallText

SpecPolls == InitPolls /\ [][NextPolls]_vars

\* The invariant of the typing of Postfix's state.
PollsTypeOK ==
    /\ pc \in {"poll", "poll_text"}
    /\ cursor \in 1..(Len(src) + 1)
    /\ Len(stack_operator) + Len(primary_operator) <= Len(src) + Len(text)

Polling == pc \in {"poll", "poll_text"}

infix_vars == <<cursor, chars_iterator, last_extracted_token, is_first_token>>

\* C33: Postfix::next_token reads at most one token of its infix iterator per
\* call and none while its queue of popped operators is not empty: the popped
\* operators are returned one per call, first popped first, before a later
\* token of the infix iterator is read; and an empty queue is filled with what
\* the call pops off the stack, from its top down, a LeftParenthesis left out.
C33_QueueBeforeUpstream ==
    [][Polling =>
        /\ primary_operator # <<>> =>
            /\ result' = Ok(Head(primary_operator))
            /\ primary_operator' = Tail(primary_operator)
            /\ stack_operator' = stack_operator
            /\ UNCHANGED infix_vars
        /\ primary_operator = <<>> =>
            /\ cursor' \in {cursor, cursor + 1}
            /\ \E k \in 0..Len(stack_operator) :
                    primary_operator' =
                        SelectSeq(SubSeq(Reverse(stack_operator), 1, k),
                                  LAMBDA t : t # LeftParenthesis)]_vars

C33_Witness ==
    /\ pc = "poll"
    /\ Len(src) = 4
    /\ cursor = 5
    /\ src[4][1] = "BinaryOperator"
    /\ Len(primary_operator) = 1
    /\ Len(stack_operator) = 1
    /\ result = Ok(src[1])
    /\ src[1][1] = "UnaryOperator"

\* The call reaches the infix iterator, which returns Err.
UpstreamErr ==
    /\ pc = "poll_text"
    /\ primary_operator = <<>>
    /\ is_err(InfixStep.result)

\* C34: when the infix iterator returns Err, Postfix::next_token returns that
\* same Err and leaves its stack of pending operators and its queue of popped
\* operators as they were.
C34_UpstreamErrPropagates ==
    [][UpstreamErr =>
        /\ result' = InfixStep.result
        /\ stack_operator' = stack_operator
        /\ primary_operator' = primary_operator]_vars

C34_Witness ==
    /\ pc = "poll_text"
    /\ text = <<"0", "+", "(", "#">>
    /\ result = ErrFormat("The character {} does not correspond to existing tokens", <<"#">>)
    /\ stack_operator = <<BinaryOperator("Plus"), LeftParenthesis>>
    /\ primary_operator = <<>>

(***************************************************************************)
(* The same calls under the fairness of the caller's loop (SpecPollsFair):  *)
(* collect_all_tokens and Evaluator::evaluate call next_token again as long *)
(* as it has not returned Stop or Err. MockInfix yields the tokens of its   *)
(* vector and then Stop on every later call.                                *)
(***************************************************************************)
InitPollsFair ==
    /\ src \in TokenSeqs \cup GrammarSeqs
    /\ text = <<>>
    /\ pc = "poll"
    /\ pipeline = "pull"
    /\ tokens = <<>>
    /\ IdleStages
    /\ IdleInfix

NextPollsFair == PostfixCall

SpecPollsFair == InitPollsFair /\ [][NextPollsFair]_vars /\ WF_vars(PostfixCall)

ReturnedStop == pc = "poll" /\ result = Ok(Stop)

\* C35: over an infix iterator that yields finitely many tokens and then Stop on
\* every later call, the repeated calls of Postfix::next_token eventually
\* return Stop or Err; Stop is returned with both stacks empty, and every call
\* after it returns Stop again.
C35_CallsTerminate ==
    /\ <>(pc = "poll" /\ (result = Ok(Stop) \/ is_err(result)))
    /\ [](ReturnedStop => (stack_operator = <<>> /\ primary_operator = <<>>))
    /\ [][ReturnedStop => result' = Ok(Stop)]_vars

C35_Witness ==
    /\ ReturnedStop
    /\ Len(src) = 4
    /\ cursor = 5
    /\ src[1][1] = "Function"
    /\ src[3][1] = "BinaryOperator"
    /\ stack_operator = <<>>
    /\ primary_operator = <<>>

(***************************************************************************)
(* The recognition predicates and the constructors they guard, each pair    *)
(* called on the same character or string (SpecRecognise); returned holds   *)
(* what the calls returned, in the order of the calls.                      *)
(***************************************************************************)
RecogniseChars ==
    {"+", "-", "*", "/", "^", "(", ")", " ", ".", "#", "_", "e", "1"}

ConstantNames == {<<"p", "i">>, <<"e">>, <<"c">>}
KnownNames == ConstantNames \cup {entry[1] : entry \in FunctionNameTable}

\* The names, what they start with, what starts with them, and every string of
\* a few letters.
RecogniseWords ==
    KnownNames
    \cup UNION {{SubSeq(w, 1, k) : k \in 0..Len(w)} : w \in KnownNames}
    \cup {w \o <<x>> : w \in KnownNames, x \in {"h", "e", "1", "_", "0", "2"}}
    \cup UNION {[1..n -> {"e", "p", "i", "c", "l", "n"}] : n \in 0..MaxTextLen}

recognise_vars ==
    <<text, src, oracle, tokenized, tokens, converted, posfix_tokens, result,
      chars_iterator, last_extracted_token, is_first_token, converter_vars,
      stack_operand, variables, pipeline>>

\* operators.rs 34-56: BinaryOperator::is_ops and BinaryOperator::from_char.
RecogniseBinaryOperator ==
    /\ pc = "recognise"
    /\ Len(text) = 1
    /\ returned' = <<BinaryOperator_is_ops(text[1]), BinaryOperator_from_char(text[1]),
                     Token_new_binary_ops(text[1])>>
    /\ pc' = "binary"
    /\ UNCHANGED recognise_vars

\* operators.rs 115-131: UnaryOperator::is_ops and UnaryOperator::from_char.
RecogniseUnaryOperator ==
    /\ pc = "recognise"
    /\ Len(text) = 1
    /\ returned' = <<UnaryOperator_is_ops(text[1]), UnaryOperator_from_char(text[1]),
                     Token_new_unary_ops(text[1])>>
    /\ pc' = "unary"
    /\ UNCHANGED recognise_vars

\* functions.rs 30-80: Function::is_fun and Function::from_string.
RecogniseFunction ==
    /\ pc = "recognise"
    /\ returned' = <<Function_is_fun(text), Function_from_string(text),
                     Token_new_function(text)>>
    /\ pc' = "function"
    /\ UNCHANGED recognise_vars

\* constants.rs 26-46: is_constant and from_string.
RecogniseConstant ==
    /\ pc = "recognise"
    /\ returned' = <<is_constant(text), constants_from_string(text),
                     Token_new_constant(text)>>
    /\ pc' = "constant"
    /\ UNCHANGED recognise_vars

InitRecognise ==
    /\ text \in {<<c>> : c \in RecogniseChars} \cup RecogniseWords
    /\ src = <<>>
    /\ pc = "recognise"
    /\ pipeline = "pull"
    /\ tokens = <<>>
    /\ IdleStages
    /\ IdleInfix

NextRecognise ==
    \/ RecogniseBinaryOperator \/ RecogniseUnaryOperator
    \/ RecogniseFunction \/ RecogniseConstant

SpecRecognise == InitRecognise /\ [][NextRecognise]_vars

\* C36: each recognition predicate holds of a character or a string iff the
\* constructor it guards returns Ok for it: BinaryOperator::is_ops and
\* from_char, UnaryOperator::is_ops and from_char, Function::is_fun and
\* from_string, is_constant and constants::from_string; so what is_constant or
\* is_fun accepts never makes Token::new_constant or Token::new_function fail.
C36_PredicatesAgree ==
    pc \in {"binary", "unary", "function", "constant"} =>
        /\ returned[1] <=> is_ok(returned[2])
        /\ returned[1] => is_ok(returned[3])
        /\ ~returned[1] => is_err(returned[2])

C36_Witness ==
    /\ pc = "function"
    /\ text = <<"a", "t", "a", "n", "h">>
    /\ returned = <<TRUE, Ok("Atanh"), Ok(Function("Atanh"))>>

\* A glyph that is a binary operator and no unary one.
C36_WitnessGlyph ==
    /\ pc = "unary"
    /\ text = <<"*">>
    /\ returned[1] = FALSE
    /\ returned[2] = Err("Unknown operator characters")

====
